---- MODULE Spec2Model ----
(***************************************************************************)
(* Model of the GST knowledge-graph engine (gst_engine):                  *)
(*   reconciliation_engine.py  GSTKnowledgeGraph  (load, indexes, graph,  *)
(*                             reconcile_period, check_payment_compliance, *)
(*                             validate_itc_chain, find_risk_clusters)     *)
(*   risk_predictor.py         VendorRiskPredictor                         *)
(*                                                                         *)
(* Units.  Money is counted in paise (1/100 rupee), scores in tenths of a  *)
(* point, rates in tenths of a percent, ratios in thousandths, dates in    *)
(* days: every round(x, n) of the code becomes an integer rounding         *)
(* (RoundDiv, ties to even as Python's round).  Python computes in binary  *)
(* floating point; the model computes the exact quotient.                  *)
(*                                                                         *)
(* Names.  Strings are the code's own ("NO_INVOICES", "MISSING_IN_2B",    *)
(* "UNPAID_OVERDUE", ...).  Index fields drop the leading underscore.      *)
(***************************************************************************)
EXTENDS Integers, Sequences, FiniteSets, TLC

VARIABLES
    files,      \* the six JSON files of DATA_DIR: the entity snapshot
    kg,         \* the GSTKnowledgeGraph instance: lists, indexes, graph G
    pc,         \* position of load_data / a running query
    i,          \* index of the build loop in progress
    today,      \* date.today(), a day number
    call,       \* the locals of the validate_itc_chain call in progress
    pr,         \* the locals of the predict_next_period_risk call in progress
    result      \* the value returned by the last query

vars == <<files, kg, pc, i, today, call, pr, result>>

-----------------------------------------------------------------------------
(* Generic helpers *)

\* dict[k] = v
Put(f, k, v) == [x \in (DOMAIN f) \cup {k} |-> IF x = k THEN v ELSE f[x]]

\* dict.get(k, d)
Get(f, k, d) == IF k \in DOMAIN f THEN f[k] ELSE d

\* a loop over s that updates acc; each step's value is computed before the next
\* element is taken
RECURSIVE Fold(_, _, _)
Fold(Op(_, _), acc, s) ==
    IF s = <<>> THEN acc
    ELSE CHOOSE r \in {Fold(Op, a, Tail(s)) : a \in {Op(acc, Head(s))}} : TRUE

RECURSIVE SeqSum(_)
SeqSum(s) == IF s = <<>> THEN 0 ELSE Head(s) + SeqSum(Tail(s))

RECURSIVE SetSum(_)
SetSum(S) == IF S = {} THEN 0 ELSE LET x == CHOOSE y \in S : TRUE
                                   IN  x + SetSum(S \ {x})

Range(s) == {s[k] : k \in DOMAIN s}

Max2(a, b) == IF a >= b THEN a ELSE b
Min2(a, b) == IF a <= b THEN a ELSE b

\* round(n / d) to the nearest integer, ties to the even one (Python round), d > 0
RoundDiv(n, d) ==
    LET q == n \div d
        r == n % d
    IN  IF 2 * r < d THEN q
        ELSE IF 2 * r > d THEN q + 1
        ELSE IF q % 2 = 0 THEN q ELSE q + 1

-----------------------------------------------------------------------------
(* networkx DiGraph: node list in insertion order, node attributes, and per   *)
(* node the successors and predecessors in insertion order; one attribute    *)
(* record per edge (u, v).                                                   *)

EmptyGraph == [node |-> <<>>, data |-> <<>>, succ |-> <<>>, pred |-> <<>>, edge |-> <<>>]

has_node(G, n) == n \in DOMAIN G.data

has_edge(G, u, v) == <<u, v>> \in DOMAIN G.edge

add_node(G, n, attrs) ==
    IF has_node(G, n)
    THEN [G EXCEPT !.data = Put(@, n, attrs)]
    ELSE [G EXCEPT !.node = Append(@, n),
                   !.data = Put(@, n, attrs),
                   !.succ = Put(@, n, <<>>),
                   !.pred = Put(@, n, <<>>)]

\* add_edge between two nodes; a missing end node is created without attributes
add_edge(G, u, v, attrs) ==
    LET G1 == IF has_node(G, u) THEN G ELSE add_node(G, u, [type |-> "None"])
        G2 == IF has_node(G1, v) THEN G1 ELSE add_node(G1, v, [type |-> "None"])
    IN  IF has_edge(G2, u, v)
        THEN [G2 EXCEPT !.edge = Put(@, <<u, v>>, attrs)]
        ELSE [G2 EXCEPT !.succ = Put(@, u, Append(G2.succ[u], v)),
                        !.pred = Put(@, v, Append(G2.pred[v], u)),
                        !.edge = Put(@, <<u, v>>, attrs)]

\* Node ids: f"tp_{id}", f"gstin_{g}", f"inv_{id}", ... as (prefix, key) pairs
tp_node(id)    == <<"tp", id>>
gstin_node(g)  == <<"gstin", g>>
inv_node(id)   == <<"inv", id>>
irn_node(id)   == <<"irn", id>>
ret_node(id)   == <<"ret", id>>
mis_node(id)   == <<"mis", id>>
pay_node(id)   == <<"pay", id>>

-----------------------------------------------------------------------------
(* GSTKnowledgeGraph.__init__ *)

NewKG ==
    [G            |-> EmptyGraph,
     taxpayers    |-> <<>>,
     invoices     |-> <<>>,
     mismatches   |-> <<>>,
     vendors      |-> <<>>,
     returns      |-> <<>>,
     payments     |-> <<>>,
     gstin_to_tp  |-> <<>>,
     inv_index    |-> <<>>,
     mis_index    |-> <<>>,
     inv_by_buyer |-> <<>>,
     inv_by_sup   |-> <<>>,
     mis_by_inv   |-> <<>>,
     pay_by_inv   |-> <<>>]

\* load_data, the file loop: every list is replaced by its file's content
read_files(k, f) ==
    [k EXCEPT !.taxpayers  = f.taxpayers,
              !.invoices   = f.invoices,
              !.mismatches = f.mismatches,
              !.vendors    = f.vendors,
              !.returns    = f.returns,
              !.payments   = f.payments]

(* _build_indexes, one loop body each *)
index_taxpayer(k, tp) ==
    [k EXCEPT !.gstin_to_tp = Put(@, tp.gstin, tp)]

index_invoice(k, inv) ==
    LET bk == <<inv.buyer_gstin, inv.return_period>>
        sk == <<inv.supplier_gstin, inv.return_period>>
    IN  [k EXCEPT !.inv_index    = Put(@, inv.invoice_id, inv),
                  !.inv_by_buyer = Put(@, bk, Append(Get(k.inv_by_buyer, bk, <<>>), inv)),
                  !.inv_by_sup   = Put(@, sk, Append(Get(k.inv_by_sup, sk, <<>>), inv))]

index_mismatch(k, m) ==
    [k EXCEPT !.mis_index  = Put(@, m.mismatch_id, m),
              !.mis_by_inv = Put(@, m.invoice_id, Append(Get(k.mis_by_inv, m.invoice_id, <<>>), m))]

index_payment(k, pay) ==
    [k EXCEPT !.pay_by_inv = Put(@, pay.invoice_id, pay)]

build_indexes(k) ==
    LET k1 == Fold(index_taxpayer, k,  k.taxpayers)
        k2 == Fold(index_invoice,  k1, k.invoices)
        k3 == Fold(index_mismatch, k2, k.mismatches)
    IN  Fold(index_payment, k3, k.payments)

(* _build_graph, one loop body each *)
graph_taxpayer(k, tp) ==
    LET G1 == add_node(k.G, tp_node(tp.taxpayer_id), [type |-> "Taxpayer", rec |-> tp])
        G2 == add_node(G1, gstin_node(tp.gstin), [type |-> "GSTIN", gstin |-> tp.gstin])
    IN  [k EXCEPT !.G = add_edge(G2, tp_node(tp.taxpayer_id), gstin_node(tp.gstin),
                                 [type |-> "REGISTERED_AS"])]

\* the same upsert replacing an existing edge by a new one
transacts_with_overwrite(G, sup_g, buy_g, inv) ==
    IF has_node(G, sup_g) /\ has_node(G, buy_g)
    THEN add_edge(G, sup_g, buy_g,
                  [type |-> "TRANSACTS_WITH", transaction_count |-> 1,
                   total_value |-> inv.total_value, risk_flag |-> FALSE])
    ELSE G

\* the TRANSACTS_WITH upsert of one invoice
transacts_with(G, sup_g, buy_g, inv) ==
    IF has_node(G, sup_g) /\ has_node(G, buy_g)
    THEN IF has_edge(G, sup_g, buy_g)
         THEN [G EXCEPT !.edge[<<sup_g, buy_g>>].transaction_count = @ + 1,
                        !.edge[<<sup_g, buy_g>>].total_value = @ + inv.total_value]
         ELSE add_edge(G, sup_g, buy_g,
                       [type |-> "TRANSACTS_WITH", transaction_count |-> 1,
                        total_value |-> inv.total_value, risk_flag |-> FALSE])
    ELSE G

\* the same loop body adding the IRN node only for an IRN whose status is ACTIVE
graph_invoice_active_irn(k, inv) ==
    LET inv_id == inv_node(inv.invoice_id)
        sup_g  == gstin_node(inv.supplier_gstin)
        buy_g  == gstin_node(inv.buyer_gstin)
        G1 == add_node(k.G, inv_id, [type |-> "Invoice", rec |-> inv])
        G2 == IF has_node(G1, sup_g)
              THEN add_edge(G1, sup_g, inv_id, [type |-> "SUPPLIER_OF"]) ELSE G1
        G3 == IF has_node(G2, buy_g)
              THEN add_edge(G2, inv_id, buy_g, [type |-> "RECIPIENT_OF"]) ELSE G2
        G4 == transacts_with(G3, sup_g, buy_g, inv)
        G5 == IF inv.irn # "" /\ inv.irn_status = "ACTIVE"
              THEN add_edge(add_node(G4, irn_node(inv.invoice_id),
                                     [type |-> "IRN", irn |-> inv.irn, status |-> inv.irn_status]),
                            inv_id, irn_node(inv.invoice_id), [type |-> "HAS_IRN"])
              ELSE G4
    IN  [k EXCEPT !.G = G5]

\* the same loop body adding the edges without the has_node tests
graph_invoice_unguarded(k, inv) ==
    LET inv_id == inv_node(inv.invoice_id)
        sup_g  == gstin_node(inv.supplier_gstin)
        buy_g  == gstin_node(inv.buyer_gstin)
        G1 == add_node(k.G, inv_id, [type |-> "Invoice", rec |-> inv])
        G2 == add_edge(G1, sup_g, inv_id, [type |-> "SUPPLIER_OF"])
        G3 == add_edge(G2, inv_id, buy_g, [type |-> "RECIPIENT_OF"])
        G4 == transacts_with(G3, sup_g, buy_g, inv)
        G5 == IF inv.irn # ""
              THEN add_edge(add_node(G4, irn_node(inv.invoice_id),
                                     [type |-> "IRN", irn |-> inv.irn, status |-> inv.irn_status]),
                            inv_id, irn_node(inv.invoice_id), [type |-> "HAS_IRN"])
              ELSE G4
    IN  [k EXCEPT !.G = G5]

graph_invoice(k, inv) ==
    LET inv_id == inv_node(inv.invoice_id)
        sup_g  == gstin_node(inv.supplier_gstin)
        buy_g  == gstin_node(inv.buyer_gstin)
        G1 == add_node(k.G, inv_id, [type |-> "Invoice", rec |-> inv])
        G2 == IF has_node(G1, sup_g)
              THEN add_edge(G1, sup_g, inv_id, [type |-> "SUPPLIER_OF"]) ELSE G1
        G3 == IF has_node(G2, buy_g)
              THEN add_edge(G2, inv_id, buy_g, [type |-> "RECIPIENT_OF"]) ELSE G2
        G4 == transacts_with(G3, sup_g, buy_g, inv)
        G5 == IF inv.irn # ""
              THEN add_edge(add_node(G4, irn_node(inv.invoice_id),
                                     [type |-> "IRN", irn |-> inv.irn, status |-> inv.irn_status]),
                            inv_id, irn_node(inv.invoice_id), [type |-> "HAS_IRN"])
              ELSE G4
    IN  [k EXCEPT !.G = G5]

graph_return(k, ret) ==
    LET G1 == add_node(k.G, ret_node(ret.return_id), [type |-> "Return", rec |-> ret])
    IN  [k EXCEPT !.G = IF has_node(G1, gstin_node(ret.gstin))
                        THEN add_edge(G1, gstin_node(ret.gstin), ret_node(ret.return_id),
                                      [type |-> "FILED_RETURN"])
                        ELSE G1]

\* the same step flagging the edge for an event of any severity
flag_edge_any(k, G, m) ==
    IF m.invoice_id \in DOMAIN k.inv_index
          /\ has_edge(G, gstin_node(m.supplier_gstin),
                      gstin_node(k.inv_index[m.invoice_id].buyer_gstin))
    THEN [G EXCEPT !.edge[<<gstin_node(m.supplier_gstin),
                            gstin_node(k.inv_index[m.invoice_id].buyer_gstin)>>].risk_flag
                        = TRUE]
    ELSE G

\* the same step storing the severity of the latest event in the flag
flag_edge_latest(k, G, m) ==
    IF m.invoice_id \in DOMAIN k.inv_index
          /\ has_edge(G, gstin_node(m.supplier_gstin),
                      gstin_node(k.inv_index[m.invoice_id].buyer_gstin))
    THEN [G EXCEPT !.edge[<<gstin_node(m.supplier_gstin),
                            gstin_node(k.inv_index[m.invoice_id].buyer_gstin)>>].risk_flag
                        = (m.risk_level = "CRITICAL")]
    ELSE G

\* "Flag TRANSACTS_WITH edge as risky if critical mismatch"
flag_edge(k, G, m) ==
    IF m.risk_level = "CRITICAL" /\ m.invoice_id \in DOMAIN k.inv_index
    THEN LET sup_g == gstin_node(m.supplier_gstin)
             buy_g == gstin_node(k.inv_index[m.invoice_id].buyer_gstin)
         IN  IF has_edge(G, sup_g, buy_g)
             THEN [G EXCEPT !.edge[<<sup_g, buy_g>>].risk_flag = TRUE]
             ELSE G
    ELSE G

graph_mismatch(k, m) ==
    LET G1 == add_node(k.G, mis_node(m.mismatch_id), [type |-> "MismatchEvent", rec |-> m])
        G2 == IF has_node(G1, inv_node(m.invoice_id))
              THEN add_edge(G1, inv_node(m.invoice_id), mis_node(m.mismatch_id),
                            [type |-> "HAS_MISMATCH"])
              ELSE G1
    IN  [k EXCEPT !.G = flag_edge(k, G2, m)]

graph_payment(k, pay) ==
    LET G1 == add_node(k.G, pay_node(pay.payment_id), [type |-> "SupplierPayment", rec |-> pay])
    IN  [k EXCEPT !.G = IF has_node(G1, inv_node(pay.invoice_id))
                        THEN add_edge(G1, inv_node(pay.invoice_id), pay_node(pay.payment_id),
                                      [type |-> "PAID_BY",
                                       days_from_invoice |-> pay.days_from_invoice,
                                       is_overdue |-> pay.is_overdue])
                        ELSE G1]

build_graph(k) ==
    LET k1 == Fold(graph_taxpayer, k,  k.taxpayers)
        k2 == Fold(graph_invoice,  k1, k.invoices)
        k3 == Fold(graph_return,   k2, k.returns)
        k4 == Fold(graph_mismatch, k3, k.mismatches)
    IN  Fold(graph_payment, k4, k.payments)

\* load_data as one call
load_data(k, f) == build_graph(build_indexes(read_files(k, f)))

-----------------------------------------------------------------------------
(* Entity records, with the fields the engine reads.  Ids are small numbers; *)
(* a party's taxpayer_id and gstin are both its number.                      *)

Taxpayer(g, streak) == [taxpayer_id |-> g, gstin |-> g, filing_streak |-> streak]

Vendor(g, score, cat) == [gstin |-> g, composite_risk_score |-> score, risk_category |-> cat]

Invoice(id, sup, buy, period, igst, cgst, sgst, day, total, irn, irn_status) ==
    [invoice_id |-> id, supplier_gstin |-> sup, buyer_gstin |-> buy,
     return_period |-> period, igst |-> igst, cgst |-> cgst, sgst |-> sgst,
     invoice_date |-> day, total_value |-> total, irn |-> irn, irn_status |-> irn_status]

\* generate_mismatches: the risk level follows the type
RISK_MAP(mtype) ==
    CASE mtype = "AMOUNT_MISMATCH"          -> "HIGH"
      [] mtype = "INVOICE_MISSING_2B"       -> "HIGH"
      [] mtype = "EXTRA_IN_2B"              -> "MEDIUM"
      [] mtype = "GSTIN_MISMATCH"           -> "HIGH"
      [] mtype = "DATE_MISMATCH"            -> "MEDIUM"
      [] mtype = "IRN_MISMATCH"             -> "CRITICAL"
      [] mtype = "EWAYBILL_MISSING"         -> "MEDIUM"
      [] mtype = "PAYMENT_OVERDUE_180_DAYS" -> "CRITICAL"

\* generate_mismatches: a mismatch copies the supplier of its invoice
Mismatch(id, inv, mtype, amount) ==
    [mismatch_id |-> id, invoice_id |-> inv.invoice_id, mismatch_type |-> mtype,
     supplier_gstin |-> inv.supplier_gstin, buyer_gstin |-> inv.buyer_gstin,
     amount_at_risk |-> amount, risk_level |-> RISK_MAP(mtype)]

\* generate_payments: is_overdue = delay_days > 180
Payment(inv, delay_days) ==
    [payment_id |-> inv.invoice_id, invoice_id |-> inv.invoice_id,
     payment_date |-> inv.invoice_date + delay_days,
     days_from_invoice |-> delay_days, is_overdue |-> (delay_days > 180)]

Return(id, g) == [return_id |-> id, gstin |-> g]

\* sequences over S of length 0..n
SeqsUpTo(S, n) == UNION {[1..m -> S] : m \in 0..n}

-----------------------------------------------------------------------------
(* The snapshots load_data is run on, step by step *)

MaxParties == 2
MaxInvoices == 2
MaxMismatches == 2

Parties == 1..MaxParties

\* an invoice of 1,000.00 + 180.00 IGST between two parties, dated 100 days ago
PlainInvoice(id, sup, buy) ==
    Invoice(id, sup, buy, 1, 18000, 0, 0, 300, 118000, "", "")

BuildInvoices(ps) == [k \in DOMAIN ps |-> PlainInvoice(k, ps[k][1], ps[k][2])]

BuildMismatches(invs, ms) == [k \in DOMAIN ms |-> Mismatch(k, invs[ms[k][1]], ms[k][2], 5000)]

\* the end points of the invoices, in list order
RECURSIVE EndPoints(_)
EndPoints(ps) == IF ps = <<>> THEN <<>> ELSE <<Head(ps)[1], Head(ps)[2]>> \o EndPoints(Tail(ps))

\* Parties are interchangeable: they are numbered in the order the invoice list
\* first names them (every graph shape occurs, once per renumbering class)
FirstUseOrder(ps) ==
    LET e == EndPoints(ps)
    IN  \A k \in DOMAIN e : \A g \in 1..(e[k] - 1) : \E j \in 1..(k - 1) : e[j] = g

\* generate_mismatches samples invoices without replacement
OnePerInvoice(ms) == \A a, b \in DOMAIN ms : ms[a][1] = ms[b][1] => a = b

\* every invoice with an odd id has been paid, after 90 days
PaidInvoices(invs) == SelectSeq(invs, LAMBDA v : v.invoice_id % 2 = 1)

BuildSnapshot(invs, ms) ==
    [taxpayers  |-> [g \in Parties |-> Taxpayer(g, 6)],
     vendors    |-> [g \in Parties |-> Vendor(g, 500, "MEDIUM")],
     invoices   |-> invs,
     mismatches |-> BuildMismatches(invs, ms),
     returns    |-> <<Return(1, 1)>>,
     payments   |-> [k \in DOMAIN PaidInvoices(invs) |-> Payment(PaidInvoices(invs)[k], 90)]]

-----------------------------------------------------------------------------
(* load_data, step by step: the file loop, _build_indexes, then one step per *)
(* iteration of the five loops of _build_graph                               *)

Phases == <<"taxpayers", "invoices", "returns", "mismatches", "payments">>

PhaseList(k, p) ==
    CASE p = "taxpayers"  -> k.taxpayers
      [] p = "invoices"   -> k.invoices
      [] p = "returns"    -> k.returns
      [] p = "mismatches" -> k.mismatches
      [] p = "payments"   -> k.payments

\* the first loop from the n-th on that has an element, or the end of load_data
RECURSIVE LoopFrom(_, _)
LoopFrom(k, n) ==
    IF n > Len(Phases) THEN "ready"
    ELSE IF PhaseList(k, Phases[n]) # <<>> THEN Phases[n]
    ELSE LoopFrom(k, n + 1)

PhaseNo(p) == CHOOSE n \in DOMAIN Phases : Phases[n] = p

\* the position after iteration i of loop pc
Advance(k) ==
    /\ pc' = IF i < Len(PhaseList(k, pc)) THEN pc ELSE LoopFrom(k, PhaseNo(pc) + 1)
    /\ i'  = IF i < Len(PhaseList(k, pc)) THEN i + 1 ELSE 1

LoadFiles ==
    /\ pc = "new"
    /\ kg' = read_files(kg, files)
    /\ pc' = "indexes"
    /\ UNCHANGED <<files, i, today, call, pr, result>>

\* pay["invoice_id"] raises KeyError on a payment record without that key: the number
\* of the first such record, 0 when there is none
first_bad_payment(k) ==
    IF \A n \in DOMAIN k.payments : "invoice_id" \in DOMAIN k.payments[n] THEN 0
    ELSE CHOOSE n \in DOMAIN k.payments :
             /\ "invoice_id" \notin DOMAIN k.payments[n]
             /\ \A m \in 1..(n - 1) : "invoice_id" \in DOMAIN k.payments[m]

\* _build_indexes up to the record that raises: the loops before it have run, and the
\* payments before it are indexed
indexes_until_error(k) ==
    LET k1 == Fold(index_taxpayer, k,  k.taxpayers)
        k2 == Fold(index_invoice,  k1, k.invoices)
        k3 == Fold(index_mismatch, k2, k.mismatches)
    IN  Fold(index_payment, k3, SubSeq(k.payments, 1, first_bad_payment(k) - 1))

BuildIndexes ==
    /\ pc = "indexes"
    /\ first_bad_payment(kg) = 0
    /\ kg' = build_indexes(kg)
    /\ pc' = LoopFrom(kg, 1)
    /\ i' = 1
    /\ UNCHANGED <<files, today, call, pr, result>>

GraphTaxpayer ==
    /\ pc = "taxpayers"
    /\ kg' = graph_taxpayer(kg, kg.taxpayers[i])
    /\ Advance(kg)
    /\ UNCHANGED <<files, today, call, pr, result>>

GraphInvoice ==
    /\ pc = "invoices"
    /\ kg' = graph_invoice(kg, kg.invoices[i])
    /\ Advance(kg)
    /\ UNCHANGED <<files, today, call, pr, result>>

GraphReturn ==
    /\ pc = "returns"
    /\ kg' = graph_return(kg, kg.returns[i])
    /\ Advance(kg)
    /\ UNCHANGED <<files, today, call, pr, result>>

GraphMismatch ==
    /\ pc = "mismatches"
    /\ kg' = graph_mismatch(kg, kg.mismatches[i])
    /\ Advance(kg)
    /\ UNCHANGED <<files, today, call, pr, result>>

GraphPayment ==
    /\ pc = "payments"
    /\ kg' = graph_payment(kg, kg.payments[i])
    /\ Advance(kg)
    /\ UNCHANGED <<files, today, call, pr, result>>

\* the KeyError leaves _build_indexes and load_data: _build_graph is not run
IndexesAbort ==
    /\ pc = "indexes"
    /\ first_bad_payment(kg) # 0
    /\ kg' = indexes_until_error(kg)
    /\ pc' = "failed"
    /\ UNCHANGED <<files, i, today, call, pr, result>>

LoadStep ==
    \/ LoadFiles
    \/ BuildIndexes
    \/ GraphTaxpayer
    \/ GraphInvoice
    \/ GraphReturn
    \/ GraphMismatch
    \/ GraphPayment

NoCall == [op |-> "none"]

-----------------------------------------------------------------------------
(* Sorting as list.sort / sorted: stable, by an integer key *)

RECURSIVE InsertDesc(_, _, _)
InsertDesc(Key(_), x, s) ==
    IF s = <<>> THEN <<x>>
    ELSE IF Key(Head(s)) >= Key(x) THEN <<Head(s)>> \o InsertDesc(Key, x, Tail(s))
    ELSE <<x>> \o s

RECURSIVE SortDescFrom(_, _, _)
SortDescFrom(Key(_), acc, s) ==
    IF s = <<>> THEN acc ELSE SortDescFrom(Key, InsertDesc(Key, Head(s), acc), Tail(s))

\* sorted(s, key=Key, reverse=True)
SortDesc(Key(_), s) == SortDescFrom(Key, <<>>, s)

RECURSIVE InsertAsc(_, _, _)
InsertAsc(Key(_), x, s) ==
    IF s = <<>> THEN <<x>>
    ELSE IF Key(Head(s)) <= Key(x) THEN <<Head(s)>> \o InsertAsc(Key, x, Tail(s))
    ELSE <<x>> \o s

RECURSIVE SortAscFrom(_, _, _)
SortAscFrom(Key(_), acc, s) ==
    IF s = <<>> THEN acc ELSE SortAscFrom(Key, InsertAsc(Key, Head(s), acc), Tail(s))

\* sorted(s, key=Key)
SortAsc(Key(_), s) == SortAscFrom(Key, <<>>, s)

\* [f(x) for x in s]
Map(F(_), s) == [k \in DOMAIN s |-> F(s[k])]

-----------------------------------------------------------------------------
(* reconcile_period *)

\* RISK_ORDER.get(level, 0)
RISK_ORDER(level) ==
    CASE level = "CRITICAL" -> 4
      [] level = "HIGH"     -> 3
      [] level = "MEDIUM"   -> 2
      [] level = "LOW"      -> 1
      [] OTHER              -> 0

\* the 180 days of Section 16(2)(b), and the 150 days from which a warning is given
PAYMENT_LIMIT_DAYS == 180
WARNING_DAYS == 150

itc_of(inv) == inv.igst + inv.cgst + inv.sgst

\* round(itc_value * 0.18 * (days / 365), 2), in paise
\* the same interest with a 360-day year
interest_on_360(itc_value, days) ==
    (itc_value \div 36000) * 18 * days + RoundDiv((itc_value % 36000) * 18 * days, 36000)

\* round(itc_value * 0.18 * (days / 365), 2) in paise; the whole multiples of 36500
\* paise are taken out first so that the products stay within 32 bits
interest_on(itc_value, days) ==
    (itc_value \div 36500) * 18 * days + RoundDiv((itc_value % 36500) * 18 * days, 36500)

\* max(ms, key=...): the first element of the greatest key
RECURSIVE MaxByRisk(_)
MaxByRisk(ms) ==
    IF Len(ms) = 1 THEN ms[1]
    ELSE LET rest == MaxByRisk(Tail(ms))
         IN  IF RISK_ORDER(ms[1].risk_level) >= RISK_ORDER(rest.risk_level) THEN ms[1] ELSE rest

\* the same check deciding the reversal by the invoice's age alone
payment_check_by_age(k, inv, now) ==
    LET days_old == now - inv.invoice_date
    IN  [payment_status |-> IF inv.invoice_id \in DOMAIN k.pay_by_inv
                            THEN "PAID" ELSE "UNPAID",
         payment_days |-> days_old,
         itc_reversal_due |-> (days_old > 180)]

\* the same check with the reversal due from the 180th day on
payment_check_from_180(k, inv, now) ==
    LET days_old == now - inv.invoice_date
    IN  IF inv.invoice_id \notin DOMAIN k.pay_by_inv
        THEN [payment_status |-> "UNPAID", payment_days |-> days_old,
              itc_reversal_due |-> (days_old >= PAYMENT_LIMIT_DAYS)]
        ELSE IF k.pay_by_inv[inv.invoice_id].is_overdue
        THEN [payment_status |-> "PAID_AFTER_180_DAYS",
              payment_days |-> k.pay_by_inv[inv.invoice_id].days_from_invoice,
              itc_reversal_due |-> FALSE]
        ELSE [payment_status |-> "PAID",
              payment_days |-> k.pay_by_inv[inv.invoice_id].days_from_invoice,
              itc_reversal_due |-> FALSE]

\* the payment status, payment days and itc_reversal_due of one invoice
payment_check(k, inv, now) ==
    LET days_old == now - inv.invoice_date
    IN  IF inv.invoice_id \notin DOMAIN k.pay_by_inv
        THEN [payment_status |-> "UNPAID", payment_days |-> days_old,
              itc_reversal_due |-> (days_old > PAYMENT_LIMIT_DAYS)]
        ELSE IF k.pay_by_inv[inv.invoice_id].is_overdue
        THEN [payment_status |-> "PAID_AFTER_180_DAYS",
              payment_days |-> k.pay_by_inv[inv.invoice_id].days_from_invoice,
              itc_reversal_due |-> FALSE]
        ELSE [payment_status |-> "PAID",
              payment_days |-> k.pay_by_inv[inv.invoice_id].days_from_invoice,
              itc_reversal_due |-> FALSE]

synthetic_mis(inv, now) ==
    [mismatch_id |-> <<"SYN-PAY", inv.invoice_id>>, invoice_id |-> inv.invoice_id,
     mismatch_type |-> "PAYMENT_OVERDUE_180_DAYS",
     supplier_gstin |-> inv.supplier_gstin,
     amount_at_risk |-> itc_of(inv),
     interest_liability |-> interest_on(itc_of(inv), now - inv.invoice_date),
     days_overdue |-> now - inv.invoice_date,
     risk_level |-> "CRITICAL"]

\* the same merge without the test for an event already attached
merged_mismatches_always(k, inv, now) ==
    LET attached == Get(k.mis_by_inv, inv.invoice_id, <<>>)
    IN  IF payment_check(k, inv, now).itc_reversal_due
        THEN Append(attached, synthetic_mis(inv, now))
        ELSE attached

\* the events of one invoice after the 180-day check
merged_mismatches(k, inv, now) ==
    LET attached == Get(k.mis_by_inv, inv.invoice_id, <<>>)
    IN  IF /\ payment_check(k, inv, now).itc_reversal_due
           /\ ~ \E n \in DOMAIN attached :
                    attached[n].mismatch_type = "PAYMENT_OVERDUE_180_DAYS"
        THEN Append(attached, synthetic_mis(inv, now))
        ELSE attached

\* the same classification letting the highest risk decide before INVOICE_MISSING_2B
classification_by_severity(k, inv, now) ==
    LET merged == merged_mismatches(k, inv, now)
    IN  IF merged = <<>>
        THEN [status |-> "MATCHED", risk_level |-> "LOW", at_risk |-> 0]
        ELSE IF MaxByRisk(merged).mismatch_type = "INVOICE_MISSING_2B"
        THEN [status |-> "MISSING_IN_2B", risk_level |-> "HIGH", at_risk |-> itc_of(inv)]
        ELSE [status     |-> MaxByRisk(merged).mismatch_type,
              risk_level |-> MaxByRisk(merged).risk_level,
              at_risk    |-> SeqSum(Map(LAMBDA m : m.amount_at_risk, merged))]

\* status, risk_level and at_risk of one invoice
classification(k, inv, now) ==
    LET attached == Get(k.mis_by_inv, inv.invoice_id, <<>>)
        merged   == merged_mismatches(k, inv, now)
        has_2b_miss == \E n \in DOMAIN attached :
                           attached[n].mismatch_type = "INVOICE_MISSING_2B"
    IN  IF merged = <<>>
        THEN [status |-> "MATCHED", risk_level |-> "LOW", at_risk |-> 0]
        ELSE IF has_2b_miss
        THEN [status |-> "MISSING_IN_2B", risk_level |-> "HIGH", at_risk |-> itc_of(inv)]
        ELSE [status     |-> MaxByRisk(merged).mismatch_type,
              risk_level |-> MaxByRisk(merged).risk_level,
              at_risk    |-> SeqSum(Map(LAMBDA m : m.amount_at_risk, merged))]

\* one element of classified_mismatches
classified_row(k, inv, now) ==
    LET c == classification(k, inv, now)
        p == payment_check(k, inv, now)
    IN  [invoice_id       |-> inv.invoice_id,
         supplier_gstin   |-> inv.supplier_gstin,
         itc_value        |-> itc_of(inv),
         status           |-> c.status,
         risk_level       |-> c.risk_level,
         at_risk          |-> c.at_risk,
         mismatches       |-> merged_mismatches(k, inv, now),
         payment_status   |-> p.payment_status,
         payment_days     |-> p.payment_days,
         itc_reversal_due |-> p.itc_reversal_due]

\* matched_count: the invoices that took the "not has_mismatch" branch
matched_count_of(k, pr_invoices, now) ==
    Len(SelectSeq(pr_invoices, LAMBDA inv : merged_mismatches(k, inv, now) = <<>>))

reconcile_period(k, gstin, period, now) ==
    LET pr_invoices == Get(k.inv_by_buyer, <<gstin, period>>, <<>>)
        classified  == Map(LAMBDA inv : classified_row(k, inv, now), pr_invoices)
        matched     == matched_count_of(k, pr_invoices, now)
    IN  IF pr_invoices = <<>>
        THEN [gstin |-> gstin, period |-> period, status |-> "NO_INVOICES",
              match_rate |-> 0, total_itc_at_risk |-> 0,
              matched_count |-> 0, total_count |-> 0,
              classified_mismatches |-> <<>>]
        ELSE [gstin |-> gstin, period |-> period,
              total_count       |-> Len(pr_invoices),
              matched_count     |-> matched,
              mismatched_count  |-> Len(pr_invoices) - matched,
              match_rate        |-> RoundDiv(matched * 1000, Len(pr_invoices)),
              total_itc_pool    |-> SeqSum(Map(itc_of, pr_invoices)),
              total_itc_at_risk |-> SeqSum(Map(LAMBDA c : c.at_risk, classified)),
              classified_mismatches |->
                  SortDesc(LAMBDA c : RISK_ORDER(c.risk_level), classified)]

-----------------------------------------------------------------------------
(* check_payment_compliance *)

\* the same outcome with the warning given from the 150th day on and no test of the ITC
compliance_row_from_150(k, inv, check_date) ==
    LET itc_value == itc_of(inv)
        days_old  == check_date - inv.invoice_date
    IN  IF inv.invoice_id \in DOMAIN k.pay_by_inv THEN [list |-> "safe"]
        ELSE IF days_old > PAYMENT_LIMIT_DAYS
        THEN [list |-> "overdue", invoice_id |-> inv.invoice_id,
              invoice_date |-> inv.invoice_date,
              itc_value |-> itc_value, days_old |-> days_old,
              status |-> "UNPAID_OVERDUE",
              days_overdue |-> days_old - PAYMENT_LIMIT_DAYS,
              itc_to_reverse |-> itc_value,
              interest_liability |-> interest_on(itc_value, days_old),
              total_liability |-> itc_value + interest_on(itc_value, days_old)]
        ELSE IF days_old >= WARNING_DAYS
        THEN [list |-> "pending", invoice_id |-> inv.invoice_id,
              invoice_date |-> inv.invoice_date,
              itc_value |-> itc_value, days_old |-> days_old,
              status |-> "PAYMENT_PENDING_WARNING",
              days_left |-> PAYMENT_LIMIT_DAYS - days_old,
              itc_at_risk |-> itc_value]
        ELSE [list |-> "safe"]

\* the same outcome taking a paid invoice as paid late by the invoice's age
compliance_row_late_by_age(k, inv, check_date) ==
    LET itc_value == itc_of(inv)
        days_old  == check_date - inv.invoice_date
    IN  IF itc_value = 0 THEN [list |-> "skip"]
        ELSE IF inv.invoice_id \notin DOMAIN k.pay_by_inv
        THEN IF days_old > PAYMENT_LIMIT_DAYS
             THEN [list |-> "overdue", invoice_id |-> inv.invoice_id,
                   invoice_date |-> inv.invoice_date,
                   itc_value |-> itc_value, days_old |-> days_old,
                   status |-> "UNPAID_OVERDUE",
                   days_overdue |-> days_old - PAYMENT_LIMIT_DAYS,
                   itc_to_reverse |-> itc_value,
                   interest_liability |-> interest_on(itc_value, days_old),
                   total_liability |-> itc_value + interest_on(itc_value, days_old)]
             ELSE IF days_old > WARNING_DAYS
             THEN [list |-> "pending", invoice_id |-> inv.invoice_id,
                   invoice_date |-> inv.invoice_date,
                   itc_value |-> itc_value, days_old |-> days_old,
                   status |-> "PAYMENT_PENDING_WARNING",
                   days_left |-> PAYMENT_LIMIT_DAYS - days_old,
                   itc_at_risk |-> itc_value]
             ELSE [list |-> "safe"]
        ELSE IF days_old > PAYMENT_LIMIT_DAYS
        THEN LET payment == k.pay_by_inv[inv.invoice_id]
                 reversal_days == payment.days_from_invoice - PAYMENT_LIMIT_DAYS
             IN  [list |-> "paid_late", invoice_id |-> inv.invoice_id,
                  invoice_date |-> inv.invoice_date,
                  itc_value |-> itc_value, days_old |-> days_old,
                  status |-> "PAID_AFTER_180_DAYS",
                  payment_date |-> payment.payment_date,
                  days_from_invoice |-> payment.days_from_invoice,
                  reversal_period_days |-> reversal_days,
                  interest_paid |-> interest_on(itc_value, reversal_days),
                  itc_re_claimable |-> itc_value]
        ELSE [list |-> "safe"]

\* the outcome of one invoice of the buyer: the list it is appended to ("skip" and "safe"
\* append nothing) and the entry, base_info's fields first
compliance_row(k, inv, check_date) ==
    LET itc_value == itc_of(inv)
        days_old  == check_date - inv.invoice_date
    IN  IF itc_value = 0 THEN [list |-> "skip"]
        ELSE IF inv.invoice_id \notin DOMAIN k.pay_by_inv
        THEN IF days_old > PAYMENT_LIMIT_DAYS
             THEN [list |-> "overdue", invoice_id |-> inv.invoice_id,
                   invoice_date |-> inv.invoice_date,
                   itc_value |-> itc_value, days_old |-> days_old,
                   status |-> "UNPAID_OVERDUE",
                   days_overdue |-> days_old - PAYMENT_LIMIT_DAYS,
                   itc_to_reverse |-> itc_value,
                   interest_liability |-> interest_on(itc_value, days_old),
                   total_liability |-> itc_value + interest_on(itc_value, days_old)]
             ELSE IF days_old > WARNING_DAYS
             THEN [list |-> "pending", invoice_id |-> inv.invoice_id,
                   invoice_date |-> inv.invoice_date,
                   itc_value |-> itc_value, days_old |-> days_old,
                   status |-> "PAYMENT_PENDING_WARNING",
                   days_left |-> PAYMENT_LIMIT_DAYS - days_old,
                   itc_at_risk |-> itc_value]
             ELSE [list |-> "safe"]
        ELSE IF k.pay_by_inv[inv.invoice_id].is_overdue
        THEN LET payment == k.pay_by_inv[inv.invoice_id]
                 reversal_days == payment.days_from_invoice - PAYMENT_LIMIT_DAYS
             IN  [list |-> "paid_late", invoice_id |-> inv.invoice_id,
                   invoice_date |-> inv.invoice_date,
                   itc_value |-> itc_value, days_old |-> days_old,
                  status |-> "PAID_AFTER_180_DAYS",
                  payment_date |-> payment.payment_date,
                  days_from_invoice |-> payment.days_from_invoice,
                  reversal_period_days |-> reversal_days,
                  interest_paid |-> interest_on(itc_value, reversal_days),
                  itc_re_claimable |-> itc_value]
        ELSE [list |-> "safe"]

\* the same report counting as safe every invoice that is in none of the three lists
check_payment_compliance_rest_safe(k, gstin, check_date) ==
    LET buyer_invoices == SelectSeq(k.invoices, LAMBDA inv : inv.buyer_gstin = gstin)
        rows           == Map(LAMBDA inv : compliance_row(k, inv, check_date), buyer_invoices)
        overdue_list   == SelectSeq(rows, LAMBDA r : r.list = "overdue")
        paid_late_list == SelectSeq(rows, LAMBDA r : r.list = "paid_late")
        pending_list   == SelectSeq(rows, LAMBDA r : r.list = "pending")
        total_reversal == SeqSum(Map(LAMBDA r : r.itc_to_reverse, overdue_list))
        total_interest == SeqSum(Map(LAMBDA r : r.interest_liability, overdue_list))
    IN  [gstin |-> gstin, as_of_date |-> check_date,
         total_invoices_checked |-> Len(buyer_invoices),
         safe_count            |-> Len(SelectSeq(rows, LAMBDA r : r.list \in {"safe", "skip"})),
         overdue_count         |-> Len(overdue_list),
         paid_late_count       |-> Len(paid_late_list),
         pending_warning_count |-> Len(pending_list),
         total_itc_reversal_required |-> total_reversal,
         total_interest_liability    |-> total_interest,
         total_exposure              |-> total_reversal + total_interest,
         total_itc_re_claimable      |->
             SeqSum(Map(LAMBDA r : r.itc_re_claimable, paid_late_list)),
         overdue_invoices   |-> SortDesc(LAMBDA r : r.itc_to_reverse, overdue_list),
         paid_late_invoices |-> SortDesc(LAMBDA r : r.itc_re_claimable, paid_late_list),
         pending_warnings   |-> SortAsc(LAMBDA r : r.days_left, pending_list)]

check_payment_compliance(k, gstin, check_date) ==
    LET buyer_invoices == SelectSeq(k.invoices, LAMBDA inv : inv.buyer_gstin = gstin)
        rows           == Map(LAMBDA inv : compliance_row(k, inv, check_date), buyer_invoices)
        overdue_list   == SelectSeq(rows, LAMBDA r : r.list = "overdue")
        paid_late_list == SelectSeq(rows, LAMBDA r : r.list = "paid_late")
        pending_list   == SelectSeq(rows, LAMBDA r : r.list = "pending")
        total_reversal == SeqSum(Map(LAMBDA r : r.itc_to_reverse, overdue_list))
        total_interest == SeqSum(Map(LAMBDA r : r.interest_liability, overdue_list))
    IN  [gstin |-> gstin, as_of_date |-> check_date,
         total_invoices_checked |-> Len(buyer_invoices),
         safe_count            |-> Len(SelectSeq(rows, LAMBDA r : r.list = "safe")),
         overdue_count         |-> Len(overdue_list),
         paid_late_count       |-> Len(paid_late_list),
         pending_warning_count |-> Len(pending_list),
         total_itc_reversal_required |-> total_reversal,
         total_interest_liability    |-> total_interest,
         total_exposure              |-> total_reversal + total_interest,
         total_itc_re_claimable      |->
             SeqSum(Map(LAMBDA r : r.itc_re_claimable, paid_late_list)),
         overdue_invoices   |-> SortDesc(LAMBDA r : r.itc_to_reverse, overdue_list),
         paid_late_invoices |-> SortDesc(LAMBDA r : r.itc_re_claimable, paid_late_list),
         pending_warnings   |-> SortAsc(LAMBDA r : r.days_left, pending_list)]

-----------------------------------------------------------------------------
(* The loaded engines the reconciliation queries are run on: party 1 buys    *)
(* from party 2 in period 1.                                                 *)

ReconInvoices == 2

\* what is known of the payment of an invoice: its age in days when unpaid,
\* the delay of the payment when paid
PaymentCases ==
    {[paid |-> FALSE, days |-> d] : d \in {150, 151, 180, 181, 200}}
        \cup {[paid |-> TRUE, days |-> d] : d \in {90, 181}}

\* the events attached to an invoice
EventCases ==
    {<<>>,
     <<"AMOUNT_MISMATCH">>,
     <<"INVOICE_MISSING_2B", "IRN_MISMATCH">>,
     <<"PAYMENT_OVERDUE_180_DAYS">>,
     <<"DATE_MISMATCH", "AMOUNT_MISMATCH">>}

\* invoices carry 18,000.00 of tax (IGST, or CGST + SGST); one case carries none
InvoiceCases ==
    {[tax |-> "igst", pay |-> p, events |-> e] : p \in PaymentCases, e \in EventCases}
      \cup {[tax |-> t, pay |-> [paid |-> FALSE, days |-> 200], events |-> <<>>] :
                t \in {"none", "cgst_sgst"}}

\* generate_mismatches: the amount at risk, here fixed per type
AmountOf(mtype) ==
    CASE mtype = "AMOUNT_MISMATCH"          -> 500000
      [] mtype = "INVOICE_MISSING_2B"       -> 600000
      [] mtype = "IRN_MISMATCH"             -> 750000
      [] mtype = "DATE_MISMATCH"            -> 400000
      [] mtype = "PAYMENT_OVERDUE_180_DAYS" -> 1800000

ReconInvoice(id, c, now) ==
    Invoice(id, 2, 1, 1,
            IF c.tax = "igst" THEN 1800000 ELSE 0,
            IF c.tax = "cgst_sgst" THEN 900000 ELSE 0,
            IF c.tax = "cgst_sgst" THEN 900000 ELSE 0,
            now - (IF c.pay.paid THEN 250 ELSE c.pay.days),
            11800000, "", "")

RECURSIVE ReconMismatches(_, _, _)
ReconMismatches(cs, invs, n) ==
    IF n > Len(cs) THEN <<>>
    ELSE [e \in DOMAIN cs[n].events |->
             Mismatch(<<n, e>>, invs[n], cs[n].events[e], AmountOf(cs[n].events[e]))]
         \o ReconMismatches(cs, invs, n + 1)

ReconSnapshot(cs, now) ==
    LET invs == [n \in DOMAIN cs |-> ReconInvoice(n, cs[n], now)]
        paid == SelectSeq([n \in DOMAIN cs |-> n], LAMBDA n : cs[n].pay.paid)
    IN  [taxpayers  |-> [g \in 1..2 |-> Taxpayer(g, 6)],
         vendors    |-> [g \in 1..2 |-> Vendor(g, 500, "MEDIUM")],
         invoices   |-> invs,
         mismatches |-> ReconMismatches(cs, invs, 1),
         returns    |-> <<>>,
         payments   |-> [n \in DOMAIN paid |-> Payment(invs[paid[n]], cs[paid[n]].pay.days)]]

-----------------------------------------------------------------------------
(* The queries as calls on the loaded engine.  A query is asked about a      *)
(* registered party or about party 0, which no file names.                   *)

QueryGstins == (DOMAIN kg.gstin_to_tp) \cup {0}

\* the same call merging with inv_mismatches.append(synthetic_mis): the list of an
\* invoice that has events is the index's own list
after_reconcile_append(k, gstin, period, now) ==
    LET pr_invoices == Get(k.inv_by_buyer, <<gstin, period>>, <<>>)
    IN  [k EXCEPT !.mis_by_inv =
            Fold(LAMBDA d, inv : IF inv.invoice_id \in DOMAIN d
                                 THEN Put(d, inv.invoice_id, merged_mismatches(k, inv, now))
                                 ELSE d,
                 @, pr_invoices)]

\* the engine after reconcile_period: the index lists are read with .get, and the merge
\* binds inv_mismatches to a new list (list(inv_mismatches) + [synthetic_mis]); nothing
\* of self is assigned
after_reconcile(k, gstin, period, now) == k

Reconcile ==
    /\ pc = "ready"
    /\ \E gstin \in QueryGstins, period \in {1, 2} :
          /\ result' = [op |-> "reconcile_period",
                        ret |-> reconcile_period(kg, gstin, period, today)]
          /\ kg' = after_reconcile(kg, gstin, period, today)
    /\ UNCHANGED <<files, pc, i, today, call, pr>>

\* as_of_date is absent (date.today()) or names a day 30 days later
PaymentCompliance ==
    /\ pc = "ready"
    /\ \E gstin \in QueryGstins, check_date \in {today, today + 30} :
          result' = [op |-> "check_payment_compliance",
                     ret |-> check_payment_compliance(kg, gstin, check_date)]
    /\ UNCHANGED <<files, kg, pc, i, today, call, pr>>

InitRecon ==
    /\ today = 400
    /\ \E cs \in SeqsUpTo(InvoiceCases, ReconInvoices) : files = ReconSnapshot(cs, today)
    /\ kg = load_data(NewKG, files)
    /\ pc = "ready"
    /\ i = 1
    /\ call = NoCall
    /\ pr = NoCall
    /\ result = NoCall

NextRecon == Reconcile \/ PaymentCompliance

SpecRecon == InitRecon /\ [][NextRecon]_vars

-----------------------------------------------------------------------------
(* Claims about reconcile_period and check_payment_compliance (SpecRecon)    *)

Reconciled == result.op = "reconcile_period"
Checked    == result.op = "check_payment_compliance"

\* the invoices of the snapshot that (gstin, period) buys
Purchases(gstin, period) ==
    SelectSeq(files.invoices,
              LAMBDA v : v.buyer_gstin = gstin /\ v.return_period = period)

HasPayment(inv) == \E n \in DOMAIN files.payments : files.payments[n].invoice_id = inv.invoice_id

EventsOf(inv) == SelectSeq(files.mismatches, LAMBDA m : m.invoice_id = inv.invoice_id)

\* C1: every result of reconcile_period, the one for a party and period with no
\* transactions included, carries matched_count, mismatched_count and total_count with
\* matched_count + mismatched_count = total_count, and 0 <= match_rate <= 100.
C1_CountsAddUp ==
    Reconciled =>
        /\ {"matched_count", "mismatched_count", "total_count", "match_rate"}
               \subseteq DOMAIN result.ret
        /\ result.ret.matched_count + result.ret.mismatched_count = result.ret.total_count
        /\ result.ret.match_rate \in 0..1000


\* the rows of a list of the result that are about invoice inv
RowsOf(rows, inv) == SelectSeq(rows, LAMBDA r : r.invoice_id = inv.invoice_id)

\* C6: for a party and period with no transactions, reconcile_period returns the
\* no-transactions status ("NO_INVOICES"), the numeric fields total_count, matched_count,
\* mismatched_count, match_rate and total_itc_at_risk all 0, and no rows.
C6_EmptyPeriodZeroed ==
    (Reconciled /\ Purchases(result.ret.gstin, result.ret.period) = <<>>) =>
        /\ "status" \in DOMAIN result.ret /\ result.ret.status = "NO_INVOICES"
        /\ \A f \in {"total_count", "matched_count", "mismatched_count",
                     "match_rate", "total_itc_at_risk"} :
               f \in DOMAIN result.ret /\ result.ret[f] = 0
        /\ result.ret.classified_mismatches = <<>>

\* the invoices of the reconciled party and period that have no event attached and a
\* payment recorded within 180 days of the invoice date
PaidInTime(inv) ==
    /\ EventsOf(inv) = <<>>
    /\ \E n \in DOMAIN files.payments :
          /\ files.payments[n].invoice_id = inv.invoice_id
          /\ files.payments[n].days_from_invoice <= 180

RowIs(inv, payment_status) ==
    LET rows == RowsOf(result.ret.classified_mismatches, inv)
    IN  /\ Len(rows) = 1
        /\ rows[1].status = "MATCHED"
        /\ rows[1].at_risk = 0
        /\ rows[1].payment_status = payment_status

\* C7 as stated: a transaction with no events and a payment within 180 days gives a row
\* MATCHED, at_risk 0, payment_status SAFE.
C7_PaidInTimeSafe ==
    Reconciled =>
        \A n \in DOMAIN Purchases(result.ret.gstin, result.ret.period) :
            LET inv == Purchases(result.ret.gstin, result.ret.period)[n]
            IN  PaidInTime(inv) => RowIs(inv, "SAFE")

\* C7 as amended: a transaction with no events and a payment within 180 days gives
\* exactly one row, MATCHED, at_risk 0, and its payment_status is PAID.
C7_PaidInTimeMatched ==
    Reconciled =>
        \A n \in DOMAIN Purchases(result.ret.gstin, result.ret.period) :
            LET inv == Purchases(result.ret.gstin, result.ret.period)[n]
            IN  PaidInTime(inv) => RowIs(inv, "PAID")

C7_Witness ==
    /\ Reconciled
    /\ \E n \in DOMAIN Purchases(result.ret.gstin, result.ret.period) :
          LET inv == Purchases(result.ret.gstin, result.ret.period)[n]
          IN  /\ PaidInTime(inv)
              /\ \E r \in Range(result.ret.classified_mismatches) :
                    r.invoice_id = inv.invoice_id /\ r.payment_days = 90

\* the invoices check_payment_compliance must report overdue on check day d
UnpaidOverdue(inv, gstin, d) ==
    /\ inv.buyer_gstin = gstin
    /\ inv.igst + inv.cgst + inv.sgst > 0
    /\ ~ HasPayment(inv)
    /\ d - inv.invoice_date > 180

\* i is credit * 0.18 * days / 365 in paise, rounded to the nearest paisa
IsInterest(x, credit, days) ==
    LET whole == (credit \div 36500) * 18 * days
        rest  == (credit % 36500) * 18 * days
    IN  /\ 2 * (36500 * (x - whole) - rest) <= 36500
        /\ 2 * (rest - 36500 * (x - whole)) <= 36500

\* C5: check_payment_compliance lists every unpaid transaction of the party with
\* credit_value > 0 and days_old > 180 exactly once as overdue ("UNPAID_OVERDUE"), with
\* reversal amount = credit_value, interest = credit_value x 0.18 x days_old / 365 to
\* 2 decimals and total_liability = reversal + interest; 18,000 at 200 days gives
\* interest 1,775.34 and total_liability 19,775.34.
C5_OverdueLiability ==
    Checked =>
        \A n \in DOMAIN files.invoices :
            LET inv  == files.invoices[n]
                days == result.ret.as_of_date - inv.invoice_date
                rows == RowsOf(result.ret.overdue_invoices, inv)
            IN  UnpaidOverdue(inv, result.ret.gstin, result.ret.as_of_date) =>
                  /\ Len(rows) = 1
                  /\ rows[1].status = "UNPAID_OVERDUE"
                  /\ rows[1].itc_to_reverse = inv.igst + inv.cgst + inv.sgst
                  /\ IsInterest(rows[1].interest_liability, rows[1].itc_to_reverse, days)
                  /\ rows[1].total_liability =
                         rows[1].itc_to_reverse + rows[1].interest_liability
                  /\ (rows[1].itc_to_reverse = 1800000 /\ days = 200) =>
                         /\ rows[1].interest_liability = 177534
                         /\ rows[1].total_liability = 1977534

C5_Witness ==
    /\ Checked
    /\ \E n \in DOMAIN files.invoices :
          /\ UnpaidOverdue(files.invoices[n], result.ret.gstin, result.ret.as_of_date)
          /\ result.ret.as_of_date - files.invoices[n].invoice_date = 200
          /\ files.invoices[n].igst = 1800000
          /\ result.ret.overdue_count >= 1


-----------------------------------------------------------------------------
(* load_data step by step from a generated snapshot, then queries (SpecBuild) *)

InitBuild ==
    /\ \E ps \in SeqsUpTo(Parties \X Parties, MaxInvoices) :
       \E ms \in SeqsUpTo((DOMAIN ps) \X {"AMOUNT_MISMATCH", "IRN_MISMATCH"}, MaxMismatches) :
          /\ FirstUseOrder(ps)
          /\ OnePerInvoice(ms)
          /\ files = BuildSnapshot(BuildInvoices(ps), ms)
    /\ kg = NewKG
    /\ pc = "new"
    /\ i = 1
    /\ today = 400
    /\ call = NoCall
    /\ pr = NoCall
    /\ result = NoCall

NextBuild == LoadStep \/ Reconcile \/ PaymentCompliance

SpecBuild == InitBuild /\ [][NextBuild]_vars

\* the aggregate party-to-party edges of a graph
TransactsWith(G) == {e \in DOMAIN G.edge : G.edge[e].type = "TRANSACTS_WITH"}

\* some CRITICAL event of the snapshot is attached to an invoice from s to b
CriticalBetween(s, b) ==
    \E n \in DOMAIN files.mismatches : \E v \in DOMAIN files.invoices :
        /\ files.mismatches[n].risk_level = "CRITICAL"
        /\ files.mismatches[n].invoice_id = files.invoices[v].invoice_id
        /\ files.invoices[v].supplier_gstin = s
        /\ files.invoices[v].buyer_gstin = b

\* C9: once the graph is built, the risk_flag of every aggregate edge (s, b) is true
\* exactly when some CRITICAL event is attached to a transaction from s to b.
C9_FlagIffCritical ==
    pc = "ready" =>
        \A s, b \in Parties :
            <<gstin_node(s), gstin_node(b)>> \in TransactsWith(kg.G) =>
                (kg.G.edge[<<gstin_node(s), gstin_node(b)>>].risk_flag
                     <=> CriticalBetween(s, b))

\* a built graph with one flagged edge and one unflagged edge that carries an event
C9_Witness ==
    /\ pc = "ready"
    /\ \E e \in TransactsWith(kg.G) : kg.G.edge[e].risk_flag
    /\ \E s, b \in Parties :
          /\ <<gstin_node(s), gstin_node(b)>> \in TransactsWith(kg.G)
          /\ ~ kg.G.edge[<<gstin_node(s), gstin_node(b)>>].risk_flag
          /\ \E n \in DOMAIN files.mismatches :
                /\ files.mismatches[n].supplier_gstin = s
                /\ files.mismatches[n].buyer_gstin = b

\* C10: a risk_flag that is true stays true through every later step of the
\* construction and through every query.
C10_FlagMonotone ==
    [][\A e \in TransactsWith(kg.G) :
           kg.G.edge[e].risk_flag => (e \in TransactsWith(kg'.G) /\ kg'.G.edge[e].risk_flag)]_vars

\* an edge is flagged and the next event to process is a non-CRITICAL one on that edge
C10_Witness ==
    /\ pc = "mismatches"
    /\ i \in DOMAIN kg.mismatches
    /\ kg.mismatches[i].risk_level # "CRITICAL"
    /\ \E e \in TransactsWith(kg.G) :
          /\ kg.G.edge[e].risk_flag
          /\ e = <<gstin_node(kg.mismatches[i].supplier_gstin),
                   gstin_node(kg.mismatches[i].buyer_gstin)>>


-----------------------------------------------------------------------------
(* validate_itc_chain: the BFS, one step per iteration of "while queue"      *)
(* Display fields (name, legal_ref, action) are left out of the records.     *)

\* the invoices reached by the SUPPLIER_OF out-edges of a node, in edge order
hop_invoices_of(k, node_id) ==
    Map(LAMBDA n : k.G.data[n].rec,
        SelectSeq(k.G.succ[node_id],
                  LAMBDA n : k.G.edge[<<node_id, n>>].type = "SUPPLIER_OF"))

\* next((v for v in self.vendors if v["gstin"] == gstin), None), 50.0 without profile
vendor_score(k, gstin) ==
    LET profiles == SelectSeq(k.vendors, LAMBDA v : v.gstin = gstin)
    IN  IF profiles = <<>> THEN 500 ELSE profiles[1].composite_risk_score

hop_info(k, node_id, hop) ==
    LET invs    == hop_invoices_of(k, node_id)
        clean   == SelectSeq(invs, LAMBDA v : Get(k.mis_by_inv, v.invoice_id, <<>>) = <<>>)
        inv_mis == Fold(LAMBDA acc, v : acc \o Get(k.mis_by_inv, v.invoice_id, <<>>),
                        <<>>, invs)
        hop_at_risk  == SeqSum(Map(LAMBDA m : m.amount_at_risk, inv_mis))
        hop_eligible == SeqSum(Map(itc_of, clean))
        hop_blocked  == \E n \in DOMAIN inv_mis : inv_mis[n].risk_level = "CRITICAL"
    IN  [hop            |-> hop,
         gstin          |-> k.G.data[node_id].gstin,
         invoice_count  |-> Len(invs),
         itc_eligible   |-> hop_eligible,
         itc_at_risk    |-> hop_at_risk,
         status         |-> IF hop_blocked THEN "BLOCKED"
                            ELSE IF hop_at_risk > 0 THEN "AT_RISK" ELSE "CLEAR",
         mismatch_types |-> {inv_mis[n].mismatch_type : n \in DOMAIN inv_mis},
         vendor_risk_score |-> vendor_score(k, k.G.data[node_id].gstin)]

\* the same loop without the visited test
enqueue_preds_unvisited(k, visited, node_id) ==
    SelectSeq(k.G.pred[node_id], LAMBDA p : k.G.data[p].type = "GSTIN")

\* the same loop over the successors of the node: the parties it supplies
enqueue_preds_downstream(k, visited, node_id) ==
    SelectSeq(k.G.succ[node_id],
              LAMBDA p : p \notin visited /\ k.G.data[p].type = "GSTIN")

\* the same loop leaving after the first predecessor it has added
enqueue_preds_first(k, visited, node_id) ==
    LET found == SelectSeq(k.G.pred[node_id],
                           LAMBDA p : p \notin visited /\ k.G.data[p].type = "GSTIN")
    IN  SubSeq(found, 1, Min2(1, Len(found)))

\* for pred in self.G.predecessors(node_id): the GSTIN nodes not yet visited, in the
\* order of the predecessor list (which names a node once); each is added to visited
\* and appended to the queue
enqueue_preds(k, visited, node_id) ==
    SelectSeq(k.G.pred[node_id],
              LAMBDA p : p \notin visited /\ k.G.data[p].type = "GSTIN")

\* the locals of a call that has passed the has_node test; popped lists the entries
\* popleft has returned so far
chain_frame(gstin, max_hops) ==
    [op |-> "validate_itc_chain", gstin |-> gstin, max_hops |-> max_hops,
     at |-> "loop",
     visited |-> {gstin_node(gstin)},
     queue |-> << <<gstin_node(gstin), 0>> >>,
     popped |-> <<>>,
     hops_data |-> <<>>,
     total_eligible |-> 0,
     total_at_risk |-> 0,
     blocked_nodes |-> <<>>,
     chain_risk_scores |-> <<>>]

\* one iteration of the while loop; h is hop_info of the entry at the head of the queue
chain_iteration(k, c, h) ==
    LET node_id == Head(c.queue)[1]
        hop     == Head(c.queue)[2]
        found   == IF hop < c.max_hops THEN enqueue_preds(k, c.visited, node_id) ELSE <<>>
    IN  IF hop > c.max_hops
        THEN [c EXCEPT !.queue = Tail(@), !.popped = Append(@, Head(c.queue)),
                       !.at = "break"]
        ELSE IF k.G.data[node_id].type # "GSTIN"
        THEN [c EXCEPT !.queue = Tail(@), !.popped = Append(@, Head(c.queue))]
        ELSE [c EXCEPT
                !.queue = Tail(@) \o [n \in DOMAIN found |-> <<found[n], hop + 1>>],
                !.visited = @ \cup Range(found),
                !.popped = Append(@, Head(c.queue)),
                !.total_eligible = @ + h.itc_eligible,
                !.total_at_risk = @ + h.itc_at_risk,
                !.chain_risk_scores = Append(@, h.vendor_risk_score),
                !.hops_data = Append(@, h),
                !.blocked_nodes =
                    IF h.status = "BLOCKED"
                    THEN Append(@, [hop |-> hop, gstin |-> h.gstin])
                    ELSE @]

\* the same code comparing the average without rounding it to one decimal
chain_result_unrounded(c) ==
    LET total == SeqSum(c.chain_risk_scores)
        n     == Len(c.chain_risk_scores)
        chain_risk_level ==
            IF (n > 0 /\ total >= 700 * n) \/ c.blocked_nodes # <<>> THEN "CRITICAL"
            ELSE IF (n > 0 /\ total >= 500 * n) \/ c.total_at_risk > 0 THEN "HIGH"
            ELSE IF n > 0 /\ total >= 300 * n THEN "MEDIUM"
            ELSE "LOW"
    IN  [gstin |-> c.gstin, max_hops |-> c.max_hops,
         hops_traversed |-> Len(c.hops_data),
         total_itc_eligible |-> c.total_eligible,
         total_itc_at_risk |-> c.total_at_risk,
         chain_risk_level |-> chain_risk_level,
         blocked_nodes |-> c.blocked_nodes,
         chain_hops |-> c.hops_data]

\* the code after the loop
chain_result(c) ==
    LET avg_chain_risk ==
            IF c.chain_risk_scores = <<>> THEN 0
            ELSE RoundDiv(SeqSum(c.chain_risk_scores), Len(c.chain_risk_scores))
        chain_risk_level ==
            IF avg_chain_risk >= 700 \/ c.blocked_nodes # <<>> THEN "CRITICAL"
            ELSE IF avg_chain_risk >= 500 \/ c.total_at_risk > 0 THEN "HIGH"
            ELSE IF avg_chain_risk >= 300 THEN "MEDIUM"
            ELSE "LOW"
    IN  [gstin |-> c.gstin, max_hops |-> c.max_hops,
         hops_traversed |-> Len(c.hops_data),
         total_itc_eligible |-> c.total_eligible,
         total_itc_at_risk |-> c.total_at_risk,
         chain_risk_level |-> chain_risk_level,
         blocked_nodes |-> c.blocked_nodes,
         chain_hops |-> c.hops_data]

\* the max_hops values asked for: negative, zero, short, and the default 4
MaxHopsChoices == {-1, 0, 1, 2, 4}

\* the call up to the loop: the error return, or the frame of the BFS
ChainCall ==
    /\ pc = "ready"
    /\ call = NoCall
    /\ \E gstin \in QueryGstins, max_hops \in MaxHopsChoices :
          IF has_node(kg.G, gstin_node(gstin))
          THEN /\ call' = chain_frame(gstin, max_hops)
               /\ result' = NoCall
          ELSE /\ call' = NoCall
               /\ result' = [op |-> "validate_itc_chain",
                             ret |-> [error |-> gstin]]
    /\ UNCHANGED <<files, kg, pc, i, today, pr>>

ChainStep ==
    /\ call.op = "validate_itc_chain"
    /\ call.at = "loop"
    /\ call.queue # <<>>
    /\ \E h \in {hop_info(kg, Head(call.queue)[1], Head(call.queue)[2])} :
          call' = chain_iteration(kg, call, h)
    /\ UNCHANGED <<files, kg, pc, i, today, pr, result>>

\* the loop has ended, by the empty queue or by break
ChainReturn ==
    /\ call.op = "validate_itc_chain"
    /\ call.at = "break" \/ call.queue = <<>>
    /\ result' = [op |-> "validate_itc_chain", ret |-> chain_result(call)]
    /\ call' = NoCall
    /\ UNCHANGED <<files, kg, pc, i, today, pr>>

ChainParties == 3

\* how a party buys: from nobody, from itself, from the party before it on the ring
\* of parties, from both, or from every other party
SupplierOptions == {"none", "self", "prev", "prev_self", "all"}

Prev(g) == IF g = 1 THEN ChainParties ELSE g - 1

SuppliersOf(g, option) ==
    CASE option = "none"      -> <<>>
      [] option = "self"      -> <<g>>
      [] option = "prev"      -> <<Prev(g)>>
      [] option = "prev_self" -> <<Prev(g), g>>
      [] option = "all"       -> [n \in 1..(ChainParties - 1) |-> IF n < g THEN n ELSE n + 1]

\* the (supplier, buyer) pairs of the invoice list, buyer by buyer from party g on
RECURSIVE ChainPairs(_, _)
ChainPairs(buys, g) ==
    IF g > ChainParties THEN <<>>
    ELSE [n \in DOMAIN SuppliersOf(g, buys[g]) |-> <<SuppliersOf(g, buys[g])[n], g>>]
             \o ChainPairs(buys, g + 1)

\* invoice 2 carries an AMOUNT_MISMATCH (HIGH) and invoice 4 an IRN_MISMATCH (CRITICAL)
ChainEvents(invs) ==
    BuildMismatches(invs, SelectSeq(<< <<2, "AMOUNT_MISMATCH">>, <<4, "IRN_MISMATCH">> >>,
                                    LAMBDA w : w[1] \in DOMAIN invs))

\* every party is registered; all but the last have a vendor profile
ChainSnapshot(ps) ==
    [taxpayers  |-> [g \in 1..ChainParties |-> Taxpayer(g, 6)],
     vendors    |-> [g \in 1..(ChainParties - 1) |->
                        Vendor(g, IF g = 1 THEN 749 ELSE 250,
                                  IF g = 1 THEN "HIGH" ELSE "LOW")],
     invoices   |-> BuildInvoices(ps),
     mismatches |-> ChainEvents(BuildInvoices(ps)),
     returns    |-> <<>>,
     payments   |-> <<>>]

InitChain ==
    /\ \E buys \in [1..ChainParties -> SupplierOptions] :
          files = ChainSnapshot(ChainPairs(buys, 1))
    /\ kg = load_data(NewKG, files)
    /\ pc = "ready"
    /\ i = 1
    /\ today = 400
    /\ call = NoCall
    /\ pr = NoCall
    /\ result = NoCall

NextChain == ChainCall \/ ChainStep \/ ChainReturn

\* a call that has started keeps running until it returns
SpecChain == InitChain /\ [][NextChain]_vars /\ WF_vars(ChainStep) /\ WF_vars(ChainReturn)

InChain == call.op = "validate_itc_chain"

\* the parties of the popped entries, in order
PoppedNodes == [n \in DOMAIN call.popped |-> call.popped[n][1]]

\* C3: validate_itc_chain terminates on every graph, cycles and self-trading parties
\* included, and for every max_hops: no party is dequeued twice, so there are at most
\* as many dequeues as parties, and every call that has started returns.
C3_ChainTerminates ==
    /\ [](InChain =>
            /\ \A a, b \in DOMAIN PoppedNodes : PoppedNodes[a] = PoppedNodes[b] => a = b
            /\ Len(call.popped) <= Cardinality(DOMAIN kg.gstin_to_tp))
    /\ (InChain ~> (call = NoCall /\ result.op = "validate_itc_chain"))

\* a call with max_hops 4 from party 1 has returned all three parties of a graph whose
\* aggregate edges are the cycle 1 -> 2, 2 -> 3, 3 -> 1
C3_Witness ==
    /\ result.op = "validate_itc_chain"
    /\ "chain_hops" \in DOMAIN result.ret
    /\ result.ret.gstin = 1
    /\ result.ret.max_hops = 4
    /\ result.ret.hops_traversed = 3
    /\ TransactsWith(kg.G) = {<<gstin_node(e[1]), gstin_node(e[2])>> :
                                  e \in {<<1, 2>>, <<2, 3>>, <<3, 1>>}}


-----------------------------------------------------------------------------
(* find_risk_clusters                                                        *)

\* G.edges(data=True): node by node in insertion order, each node's successors in
\* insertion order; the edges of the nodes numbered lo..hi
RECURSIVE edges_from(_, _, _)
edges_from(G, lo, hi) ==
    IF lo > hi THEN <<>>
    ELSE IF lo = hi
    THEN [j \in DOMAIN G.succ[G.node[lo]] |-> <<G.node[lo], G.succ[G.node[lo]][j]>>]
    ELSE edges_from(G, lo, (lo + hi) \div 2) \o edges_from(G, (lo + hi) \div 2 + 1, hi)

\* nx.Graph: nodes in insertion order and one attribute record per unordered pair
EmptyUndirected == [node |-> <<>>, edge |-> <<>>]

\* undirected.add_edge(u, v, ...): a second edge between the same two nodes, in either
\* direction, replaces the attributes
add_undirected(U, e, attrs) ==
    LET n1 == IF e[1] \in Range(U.node) THEN U.node ELSE Append(U.node, e[1])
        n2 == IF e[2] \in Range(n1) THEN n1 ELSE Append(n1, e[2])
    IN  [node |-> n2, edge |-> Put(U.edge, {e[1], e[2]}, attrs)]

\* the undirected GSTIN subgraph: the TRANSACTS_WITH edges between GSTIN nodes, added
\* in the order of G.edges
undirected_of(G) ==
    Fold(LAMBDA U, e :
             add_undirected(U, e, [transaction_count |-> G.edge[e].transaction_count,
                                   total_value |-> G.edge[e].total_value,
                                   risk_flag |-> G.edge[e].risk_flag]),
         EmptyUndirected,
         SelectSeq(edges_from(G, 1, Len(G.node)),
                   LAMBDA e : /\ G.edge[e].type = "TRANSACTS_WITH"
                              /\ G.data[e[1]].type = "GSTIN"
                              /\ G.data[e[2]].type = "GSTIN"))

\* the nodes one edge away from a node of S
neighbours(U, S) == {w \in Range(U.node) : \E u \in S : {u, w} \in DOMAIN U.edge}

\* a search that stops after the first layer
one_layer(U, S) == S \cup neighbours(U, S)

\* the nodes a search from S reaches
RECURSIVE reachable(_, _)
reachable(U, S) ==
    IF neighbours(U, S) \subseteq S THEN S ELSE reachable(U, S \cup neighbours(U, S))

\* nx.connected_components: in node order, every node not yet seen starts a component
RECURSIVE components_from(_, _, _)
components_from(U, n, seen) ==
    IF n > Len(U.node) THEN <<>>
    ELSE IF U.node[n] \in seen THEN components_from(U, n + 1, seen)
    ELSE <<reachable(U, {U.node[n]})>>
             \o components_from(U, n + 1, seen \cup reachable(U, {U.node[n]}))

connected_components(U) == components_from(U, 1, {})

\* {v["gstin"]: v["composite_risk_score"] for v in self.vendors}
vendor_risk(k) ==
    Fold(LAMBDA d, v : Put(d, v.gstin, v.composite_risk_score), <<>>, k.vendors)

RECURSIVE SumOver(_, _)
SumOver(F(_), S) ==
    IF S = {} THEN 0
    ELSE LET x == CHOOSE y \in S : TRUE IN F(x) + SumOver(F, S \ {x})

\* len(component) > MEMBER_LIMIT cuts member_gstins; at most TOP_CLUSTERS are returned
MEMBER_LIMIT == 10
TOP_CLUSTERS == 10

\* one cluster; shown is the set of members that member_gstins[:10] keeps (all of them
\* up to 10 members; beyond that the order of the list, a set's iteration order, decides)
cluster_of(k, U, component, n, shown) ==
    LET risk      == vendor_risk(k)
        score(m)  == Get(risk, k.G.data[m].gstin, 500)
        avg_risk  == RoundDiv(SumOver(score, component), Cardinality(component))
        inside    == {e \in DOMAIN U.edge : e \subseteq component}
        value(e)  == U.edge[e].total_value
    IN  [cluster_id     |-> n,
         member_count   |-> Cardinality(component),
         member_gstins  |-> {k.G.data[m].gstin : m \in shown},
         avg_risk_score |-> avg_risk,
         max_risk_score |-> CHOOSE r \in {score(m) : m \in component} :
                                \A m \in component : score(m) <= r,
         cluster_risk   |-> IF avg_risk >= 700 THEN "CRITICAL"
                            ELSE IF avg_risk >= 500 THEN "HIGH"
                            ELSE IF avg_risk >= 300 THEN "MEDIUM"
                            ELSE "LOW",
         has_critical_member |-> \E m \in component : score(m) >= 800,
         total_transaction_value |-> SumOver(value, inside)]

\* what member_gstins[:10] can hide: of every component of more than 10 members, all
\* but 10
Hiddens(components) ==
    LET big == UNION {components[n] : n \in {m \in DOMAIN components :
                                                Cardinality(components[m]) > MEMBER_LIMIT}}
    IN  {h \in SUBSET big :
            \A n \in DOMAIN components :
                Cardinality(components[n] \cap h) =
                    Max2(0, Cardinality(components[n]) - MEMBER_LIMIT)}

\* the same loop cutting the list of clusters without sorting it
ranked_clusters_unsorted(k, U, components, hidden) ==
    LET clusters == [n \in DOMAIN components |->
                        cluster_of(k, U, components[n], n, components[n] \ hidden)]
    IN  SubSeq(clusters, 1, Min2(TOP_CLUSTERS, Len(clusters)))

\* the loop over the components, the sort and the cut to the top 10
ranked_clusters(k, U, components, hidden) ==
    LET clusters == [n \in DOMAIN components |->
                        cluster_of(k, U, components[n], n, components[n] \ hidden)]
        sorted   == SortDesc(LAMBDA c : c.avg_risk_score, clusters)
    IN  SubSeq(sorted, 1, Min2(TOP_CLUSTERS, Len(sorted)))

find_risk_clusters(k, hidden) ==
    ranked_clusters(k, undirected_of(k.G), connected_components(undirected_of(k.G)), hidden)

\* the projection and its components are computed once, then the list is built for
\* one of the possible cuts of the member lists
FindClusters ==
    /\ pc = "ready"
    /\ \E U \in {undirected_of(kg.G)} :
       \E components \in {connected_components(U)} :
       \E hidden \in Hiddens(components) :
          result' = [op |-> "find_risk_clusters",
                     ret |-> ranked_clusters(kg, U, components, hidden)]
    /\ UNCHANGED <<files, kg, pc, i, today, call, pr>>

ClusterParties == 11

\* the trading patterns of the first n parties: each with itself, a chain, a ring,
\* disjoint pairs, or a chain with every other party trading with itself
ClusterShapes == {"selves", "chain", "ring", "pairs", "chain_selves"}

ClusterPairs(shape, n) ==
    LET chain == [g \in 1..(n - 1) |-> <<g, g + 1>>]
    IN  CASE shape = "selves" -> [g \in 1..n |-> <<g, g>>]
          [] shape = "chain"  -> chain
          [] shape = "ring"   -> IF n = 0 THEN <<>> ELSE Append(chain, <<n, 1>>)
          [] shape = "pairs"  -> [j \in 1..(n \div 2) |-> <<2 * j - 1, 2 * j>>]
          [] shape = "chain_selves" ->
                 chain \o [j \in 1..(ClusterParties - n) |-> <<n + j, n + j>>]

\* with back, every invoice between two parties is followed, at the end of the list,
\* by one of twice the value in the other direction
ClusterInvoices(ps, back) ==
    LET there == [j \in DOMAIN ps |-> PlainInvoice(j, ps[j][1], ps[j][2])]
        two   == SelectSeq(ps, LAMBDA p : p[1] # p[2])
    IN  IF back
        THEN there \o [j \in DOMAIN two |->
                          Invoice(Len(ps) + j, two[j][2], two[j][1],
                                  1, 36000, 0, 0, 300, 236000, "", "")]
        ELSE there

\* every party is registered; all but the last have a vendor profile
ClusterSnapshot(ps, back) ==
    [taxpayers  |-> [g \in 1..ClusterParties |-> Taxpayer(g, 6)],
     vendors    |-> [g \in 1..(ClusterParties - 1) |->
                        Vendor(g, ((g * 3) % 10) * 100 + 50, "MEDIUM")],
     invoices   |-> ClusterInvoices(ps, back),
     mismatches |-> <<>>,
     returns    |-> <<>>,
     payments   |-> <<>>]

InitCluster ==
    /\ \E shape \in ClusterShapes, n \in 0..ClusterParties, back \in BOOLEAN :
          files = ClusterSnapshot(ClusterPairs(shape, n), back)
    /\ kg = load_data(NewKG, files)
    /\ pc = "ready"
    /\ i = 1
    /\ today = 400
    /\ call = NoCall
    /\ pr = NoCall
    /\ result = NoCall

NextCluster == FindClusters

SpecCluster == InitCluster /\ [][NextCluster]_vars

Clustered == result.op = "find_risk_clusters"

\* the party is an end of some invoice between registered parties
Trading(g) ==
    \E n \in DOMAIN files.invoices :
        g \in {files.invoices[n].supplier_gstin, files.invoices[n].buyer_gstin}

\* the parties that have an invoice, in either direction, with a party of S
Partners(S) ==
    {g \in 1..ClusterParties :
        \E n \in DOMAIN files.invoices :
            \/ files.invoices[n].supplier_gstin = g /\ files.invoices[n].buyer_gstin \in S
            \/ files.invoices[n].buyer_gstin = g /\ files.invoices[n].supplier_gstin \in S}

\* the connected component of S in the snapshot
RECURSIVE TradeGroup(_)
TradeGroup(S) == IF Partners(S) \subseteq S THEN S ELSE TradeGroup(S \cup Partners(S))

TradeGroups == {TradeGroup({g}) : g \in {p \in 1..ClusterParties : Trading(p)}}

\* the returned clusters that list party g
ListedIn(g) == {n \in DOMAIN result.ret : g \in result.ret[n].member_gstins}

\* C2 as stated: every party with an aggregate edge is in the member list of exactly
\* one returned cluster.
C2_ExactPartition ==
    Clustered =>
        \A g \in 1..ClusterParties : Trading(g) => Cardinality(ListedIn(g)) = 1

\* C2 as amended: every party with an aggregate edge is listed by at most one returned
\* cluster, a cluster lists only members of the party's connected component and counts
\* all of them, and the party is listed by exactly one cluster when there are at most
\* 10 components and its component has at most 10 members.
C2_PartitionUpToLimits ==
    Clustered =>
        \A g \in 1..ClusterParties :
            Trading(g) =>
                /\ Cardinality(ListedIn(g)) <= 1
                /\ \A n \in ListedIn(g) :
                       /\ result.ret[n].member_gstins \subseteq TradeGroup({g})
                       /\ result.ret[n].member_count = Cardinality(TradeGroup({g}))
                /\ (Cardinality(TradeGroups) <= 10 /\ Cardinality(TradeGroup({g})) <= 10)
                       => Cardinality(ListedIn(g)) = 1

\* ten clusters of several members have been returned for a graph of ten components
C2_Witness ==
    /\ Clustered
    /\ Cardinality(TradeGroups) = 10
    /\ Len(result.ret) = 10
    /\ \E g \in 1..ClusterParties : Cardinality(TradeGroup({g})) = 2
    /\ \A g \in 1..ClusterParties : Trading(g) => Cardinality(ListedIn(g)) = 1


-----------------------------------------------------------------------------
(* VendorRiskPredictor (risk_predictor.py).  Scores are in tenths, ratios in *)
(* thousandths.                                                              *)

\* _score_to_category
score_to_category(score) ==
    IF score >= 800 THEN "CRITICAL"
    ELSE IF score >= 600 THEN "HIGH"
    ELSE IF score >= 400 THEN "MEDIUM"
    ELSE "LOW"

\* VendorRiskPredictor.__init__: the two maps by gstin
NewPredictor(k) ==
    [vendor_map |-> Fold(LAMBDA d, v : Put(d, v.gstin, v), <<>>, k.vendors),
     tp_map     |-> Fold(LAMBDA d, tp : Put(d, tp.gstin, tp), <<>>, k.taxpayers)]

compute_graph_features(k, p, gstin) ==
    LET node_id == gstin_node(gstin)
        invoice_nodes == SelectSeq(k.G.succ[node_id],
                                   LAMBDA v : k.G.edge[<<node_id, v>>].type = "SUPPLIER_OF")
        mis_nodes == Fold(LAMBDA acc, inv :
                              acc \o SelectSeq(k.G.succ[inv],
                                       LAMBDA m : k.G.edge[<<inv, m>>].type = "HAS_MISMATCH"),
                          <<>>, invoice_nodes)
        invoice_count  == Len(invoice_nodes)
        mismatch_count == Len(mis_nodes)
        mismatch_ratio == RoundDiv(mismatch_count * 1000, Max2(1, invoice_count))
        neighbors == {n \in Range(k.G.pred[node_id]) \cup Range(k.G.succ[node_id]) :
                         /\ k.G.data[n].type = "GSTIN"
                         /\ k.G.data[n].gstin \in DOMAIN p.vendor_map}
        risk_of(n) == p.vendor_map[k.G.data[n].gstin].composite_risk_score
        avg_neighbor_risk ==
            IF neighbors = {} THEN 500
            ELSE RoundDiv(SumOver(risk_of, neighbors), Cardinality(neighbors))
        filing_streak == IF gstin \in DOMAIN p.tp_map THEN p.tp_map[gstin].filing_streak ELSE 0
    IN  IF ~ has_node(k.G, node_id) THEN [error |-> gstin]
        ELSE [gstin              |-> gstin,
              in_degree          |-> Len(k.G.pred[node_id]),
              out_degree         |-> Len(k.G.succ[node_id]),
              transaction_volume |-> Len(k.G.pred[node_id]) + Len(k.G.succ[node_id]),
              invoice_count      |-> invoice_count,
              mismatch_count     |-> mismatch_count,
              mismatch_ratio     |-> mismatch_ratio,
              avg_neighbor_risk  |-> avg_neighbor_risk,
              network_risk_amplification |-> RoundDiv(avg_neighbor_risk * 3, 10),
              filing_consistency |-> RoundDiv(filing_streak * 1000, 24),
              filing_streak      |-> filing_streak,
              has_critical_mismatch |->
                  \E n \in DOMAIN mis_nodes :
                      k.G.data[mis_nodes[n]].rec.risk_level = "CRITICAL"]

\* the rule evaluation with "if" in place of "elif" for the moderate ratio
rule_factors_if(features) ==
    (IF features.mismatch_ratio > 400 THEN << <<"mismatch_ratio_high", 35>> >> ELSE <<>>)
    \o (IF features.mismatch_ratio > 200 THEN << <<"mismatch_ratio_moderate", 15>> >>
        ELSE <<>>)
    \o (IF features.avg_neighbor_risk > 650 THEN << <<"neighbor_risk", 20>> >> ELSE <<>>)
    \o (IF features.filing_streak < 3 THEN << <<"filing_poor", 25>> >> ELSE <<>>)
    \o (IF features.mismatch_count > 5 THEN << <<"mismatch_count", 15>> >> ELSE <<>>)
    \o (IF features.has_critical_mismatch THEN << <<"critical_mismatch", 20>> >> ELSE <<>>)
    \o (IF features.filing_streak > 12 THEN << <<"filing_good", -15>> >> ELSE <<>>)

\* the rule evaluation: the factors appended, each with what it adds to rule_score
rule_factors(features) ==
    (IF features.mismatch_ratio > 400 THEN << <<"mismatch_ratio_high", 35>> >>
     ELSE IF features.mismatch_ratio > 200 THEN << <<"mismatch_ratio_moderate", 15>> >>
     ELSE <<>>)
    \o (IF features.avg_neighbor_risk > 650 THEN << <<"neighbor_risk", 20>> >> ELSE <<>>)
    \o (IF features.filing_streak < 3 THEN << <<"filing_poor", 25>> >> ELSE <<>>)
    \o (IF features.mismatch_count > 5 THEN << <<"mismatch_count", 15>> >> ELSE <<>>)
    \o (IF features.has_critical_mismatch THEN << <<"critical_mismatch", 20>> >> ELSE <<>>)
    \o (IF features.filing_streak > 12 THEN << <<"filing_good", -15>> >> ELSE <<>>)

\* round(min(100.0, rule_score + base_risk * 0.3 + network_risk_amplification), 1),
\* computed in hundredths
predicted_score_of(rule_score, base_risk, amplification) ==
    RoundDiv(Min2(10000, rule_score * 100 + base_risk * 3 + amplification * 10), 10)

\* the locals after "vendor = ..., base_risk = ..., rule_score = 0, key_factors = []"
predict_frame(p, gstin, features) ==
    [op |-> "predict_next_period_risk", at |-> "rules", gstin |-> gstin,
     features |-> features,
     vendor |-> Get(p.vendor_map, gstin, [gstin |-> gstin]),
     base_risk |-> IF gstin \in DOMAIN p.vendor_map
                   THEN p.vendor_map[gstin].composite_risk_score ELSE 500,
     rule_score |-> 0,
     key_factors |-> <<>>]

\* the returned dict
prediction(c) ==
    LET predicted_score == predicted_score_of(c.rule_score, c.base_risk,
                                              c.features.network_risk_amplification)
    IN  [gstin |-> c.gstin,
         current_risk_score |-> c.base_risk,
         current_risk_category |-> IF "risk_category" \in DOMAIN c.vendor
                                   THEN c.vendor.risk_category ELSE "MEDIUM",
         predicted_risk_score |-> predicted_score,
         predicted_risk_category |-> score_to_category(predicted_score),
         score_delta |-> predicted_score - c.base_risk,
         confidence |-> IF c.features.invoice_count > 10 THEN "HIGH" ELSE "MEDIUM",
         key_risk_factors |-> IF c.key_factors = <<>> THEN <<"none">> ELSE c.key_factors,
         graph_features |-> c.features]

\* the call up to the rules: the error return, or the locals
PredictCall ==
    /\ pc = "ready"
    /\ call = NoCall
    /\ \E gstin \in QueryGstins :
       \E features \in {compute_graph_features(kg, pr, gstin)} :
          IF "error" \in DOMAIN features
          THEN /\ call' = NoCall
               /\ result' = [op |-> "predict_next_period_risk",
                             ret |-> [error |-> features.error]]
          ELSE /\ call' = predict_frame(pr, gstin, features)
               /\ result' = NoCall
    /\ UNCHANGED <<files, kg, pc, i, today, pr>>

\* the locals after the rules whose factors are fired
apply_rules(c, fired) ==
    [c EXCEPT !.rule_score = @ + SeqSum(Map(LAMBDA f : f[2], fired)),
              !.key_factors = @ \o Map(LAMBDA f : f[1], fired),
              !.at = "score"]

\* the seven rules
PredictRules ==
    /\ call.op = "predict_next_period_risk"
    /\ call.at = "rules"
    /\ \E fired \in {rule_factors(call.features)} : call' = apply_rules(call, fired)
    /\ UNCHANGED <<files, kg, pc, i, today, pr, result>>

PredictReturn ==
    /\ call.op = "predict_next_period_risk"
    /\ call.at = "score"
    /\ result' = [op |-> "predict_next_period_risk", ret |-> prediction(call)]
    /\ call' = NoCall
    /\ UNCHANGED <<files, kg, pc, i, today, pr>>

\* (invoices supplied, of which with an event) of the party looked at: ratios 0, 0.2,
\* 0.4, 0.5 with few events, and 0.4 and 0.5 with six
PredictShapes == {<<0, 0>>, <<1, 0>>, <<5, 1>>, <<5, 2>>, <<2, 1>>, <<15, 6>>, <<12, 6>>}
PredictStreaks == {0, 2, 3, 12, 13}
\* composite risk scores; -1 stands for "no vendor profile"
PredictScores == {-1, 0, 400, 1000}
NeighborScores == {-1, 0, 650, 700, 1000}

\* party 1 supplies shape[1] invoices to party 2; the first shape[2] of them carry an
\* event, the first an IRN_MISMATCH if critical
PredictSnapshot(shape, critical, streak, score, neighbor) ==
    LET invs == [n \in 1..shape[1] |-> PlainInvoice(n, 1, 2)]
    IN  [taxpayers  |-> <<Taxpayer(1, streak), Taxpayer(2, 6)>>,
         vendors    |-> (IF score = -1 THEN <<>>
                         ELSE <<Vendor(1, score, score_to_category(score))>>)
                        \o (IF neighbor = -1 THEN <<>>
                            ELSE <<Vendor(2, neighbor, score_to_category(neighbor))>>),
         invoices   |-> invs,
         mismatches |-> [n \in 1..shape[2] |->
                            Mismatch(n, invs[n],
                                     IF critical /\ n = 1 THEN "IRN_MISMATCH"
                                     ELSE "AMOUNT_MISMATCH", 5000)],
         returns    |-> <<>>,
         payments   |-> <<>>]

InitPredict ==
    /\ \E shape \in PredictShapes, critical \in BOOLEAN, streak \in PredictStreaks,
          score \in PredictScores, neighbor \in NeighborScores :
          files = PredictSnapshot(shape, critical, streak, score, neighbor)
    /\ kg = load_data(NewKG, files)
    /\ pr = NewPredictor(kg)
    /\ pc = "ready"
    /\ i = 1
    /\ today = 400
    /\ call = NoCall
    /\ result = NoCall

Predicted == result.op = "predict_next_period_risk" /\ "error" \notin DOMAIN result.ret

\* C4: every prediction has a predicted_risk_score between 0 and 100 (composite scores
\* of the snapshot between 0 and 100).
C4_ScoreInRange ==
    Predicted => result.ret.predicted_risk_score \in 0..1000

\* the rules have been evaluated for the call in progress
Scored == call.op = "predict_next_period_risk" /\ call.at = "score"

Weight(fires, w) == IF fires THEN w ELSE 0

\* the features of the example: filing_streak 0, mismatch_ratio 0.5, avg_neighbor_risk
\* 70, a critical mismatch, and not more than 5 mismatches
ExampleFeatures(f) ==
    /\ f.filing_streak = 0
    /\ f.mismatch_ratio = 500
    /\ f.avg_neighbor_risk = 700
    /\ f.has_critical_mismatch
    /\ f.mismatch_count <= 5

\* C8: rule_score is the sum of the weights of the rules that fire: +35 for
\* mismatch_ratio > 0.4, else +15 for mismatch_ratio > 0.2, +20 for avg_neighbor_risk
\* > 65, +25 for filing_streak < 3, +15 for mismatch_count > 5, +20 for a critical
\* mismatch, -15 for filing_streak > 12; the example features with base score 40 give
\* rule_score 100, predicted score 100 and category CRITICAL.
C8_RuleScore ==
    /\ Scored =>
          /\ call.rule_score =
                 Weight(call.features.mismatch_ratio > 400, 35)
                 + Weight(call.features.mismatch_ratio <= 400
                              /\ call.features.mismatch_ratio > 200, 15)
                 + Weight(call.features.avg_neighbor_risk > 650, 20)
                 + Weight(call.features.filing_streak < 3, 25)
                 + Weight(call.features.mismatch_count > 5, 15)
                 + Weight(call.features.has_critical_mismatch, 20)
                 - Weight(call.features.filing_streak > 12, 15)
          /\ ExampleFeatures(call.features) => call.rule_score = 100
    /\ (Predicted /\ ExampleFeatures(result.ret.graph_features)
            /\ result.ret.current_risk_score = 400) =>
          /\ result.ret.predicted_risk_score = 1000
          /\ result.ret.predicted_risk_category = "CRITICAL"

\* the example has been predicted
C8_Witness ==
    /\ Predicted
    /\ ExampleFeatures(result.ret.graph_features)
    /\ result.ret.current_risk_score = 400
    /\ result.ret.predicted_risk_score = 1000

-----------------------------------------------------------------------------
(* All the queries on one loaded engine (SpecQueries): reconcile_period,     *)
(* check_payment_compliance, validate_itc_chain, find_risk_clusters,         *)
(* compute_graph_features, predict_next_period_risk, predict_all_vendors.    *)
(* A call of validate_itc_chain or predict_next_period_risk in progress is   *)
(* interleaved with the other queries.                                       *)

\* _category_order
category_order(cat) ==
    CASE cat = "CRITICAL" -> 4
      [] cat = "HIGH"     -> 3
      [] cat = "MEDIUM"   -> 2
      [] cat = "LOW"      -> 1
      [] OTHER            -> 0

\* predict_next_period_risk as one call
predict_next_period_risk(k, p, gstin) ==
    LET features == compute_graph_features(k, p, gstin)
    IN  IF "error" \in DOMAIN features THEN [error |-> features.error]
        ELSE prediction(apply_rules(predict_frame(p, gstin, features),
                                    rule_factors(features)))

\* predict_all_vendors: the predictions of the vendors that are in the graph, sorted,
\* and the movement of their categories
predict_all_vendors(k, p) ==
    LET results     == Map(LAMBDA v : predict_next_period_risk(k, p, v.gstin), k.vendors)
        predictions == SortDesc(LAMBDA r : r.predicted_risk_score,
                                SelectSeq(results, LAMBDA r : "error" \notin DOMAIN r))
        move(r)     == category_order(r.predicted_risk_category)
                           - category_order(r.current_risk_category)
    IN  [total_vendors |-> Len(predictions),
         moving_up     |-> Len(SelectSeq(predictions, LAMBDA r : move(r) > 0)),
         moving_down   |-> Len(SelectSeq(predictions, LAMBDA r : move(r) < 0)),
         stable        |-> Len(SelectSeq(predictions, LAMBDA r : move(r) = 0)),
         predictions   |-> predictions]

GraphFeatures ==
    /\ pc = "ready"
    /\ \E gstin \in QueryGstins :
          result' = [op |-> "compute_graph_features",
                     ret |-> compute_graph_features(kg, pr, gstin)]
    /\ UNCHANGED <<files, kg, pc, i, today, call, pr>>

PredictAll ==
    /\ pc = "ready"
    /\ result' = [op |-> "predict_all_vendors", ret |-> predict_all_vendors(kg, pr)]
    /\ UNCHANGED <<files, kg, pc, i, today, call, pr>>

\* the predictor's calls on the engines of InitPredict
NextPredict == PredictCall \/ PredictRules \/ PredictReturn \/ PredictAll

SpecPredict == InitPredict /\ [][NextPredict]_vars

\* the purchases of party 1 from party 2 in the snapshots queried: none; one unpaid for
\* 200 days; one unpaid for 200 days with an event and one paid; one with a CRITICAL
\* event
QueryCases ==
    LET unpaid == [paid |-> FALSE, days |-> 200]
        paid   == [paid |-> TRUE, days |-> 90]
    IN  {<<>>,
         <<[tax |-> "igst", pay |-> unpaid, events |-> <<>>]>>,
         <<[tax |-> "igst", pay |-> unpaid, events |-> <<"AMOUNT_MISMATCH">>],
           [tax |-> "igst", pay |-> paid, events |-> <<>>]>>,
         <<[tax |-> "igst", pay |-> paid,
            events |-> <<"INVOICE_MISSING_2B", "IRN_MISMATCH">>]>>}

InitQueries ==
    /\ today = 400
    /\ \E cs \in QueryCases : files = ReconSnapshot(cs, today)
    /\ kg = load_data(NewKG, files)
    /\ pr = NewPredictor(kg)
    /\ pc = "ready"
    /\ i = 1
    /\ call = NoCall
    /\ result = NoCall

NextQueries ==
    \/ Reconcile
    \/ PaymentCompliance
    \/ ChainCall
    \/ ChainStep
    \/ ChainReturn
    \/ FindClusters
    \/ GraphFeatures
    \/ PredictCall
    \/ PredictRules
    \/ PredictReturn
    \/ PredictAll

SpecQueries == InitQueries /\ [][NextQueries]_vars

\* the queries that look a party up
LookupOps ==
    {"reconcile_period", "check_payment_compliance", "validate_itc_chain",
     "compute_graph_features", "predict_next_period_risk"}

\* the party the last query was asked about
AskedParty == IF "error" \in DOMAIN result.ret THEN result.ret.error ELSE result.ret.gstin

\* a result that tells the caller the party was not found: the error value, or the
\* status of reconcile_period's early return
NotFound(ret) ==
    \/ "error" \in DOMAIN ret
    \/ "status" \in DOMAIN ret /\ ret.status = "NO_INVOICES"

\* C11: every lookup query (reconcile_period, check_payment_compliance,
\* validate_itc_chain, compute_graph_features, predict_next_period_risk) asked about a
\* party that is not in the graph returns an explicit not-found result.
C11_UnknownPartyNotFound ==
    (result.op \in LookupOps /\ ~ has_node(kg.G, gstin_node(AskedParty)))
        => NotFound(result.ret)

-----------------------------------------------------------------------------
(* load_data step by step on snapshots with dangling references, several     *)
(* payments of one invoice and a defective record, and load_data called      *)
(* again on the loaded engine (SpecLoad)                                     *)

LoadInvoices == 2

\* parties 1 and 2 are registered; party 3 is named by invoices only
Registered == {1, 2}
LoadPairs == {<<1, 2>>, <<2, 1>>, <<1, 3>>, <<3, 1>>, <<3, 3>>}

\* the payments file: empty; one payment of invoice 1; two payments of invoice 1, the
\* second late; a payment of an invoice the files do not have; a payment followed by a
\* record without invoice_id
PaymentOptions == {"none", "one", "two", "stray", "broken"}

LoadPayments(option) ==
    LET inv1   == PlainInvoice(1, 1, 2)
        first  == Payment(inv1, 90)
        second == [Payment(inv1, 200) EXCEPT !.payment_id = 101]
    IN  CASE option = "none"   -> <<>>
          [] option = "one"    -> <<first>>
          [] option = "two"    -> <<first, second>>
          [] option = "stray"  -> <<Payment(PlainInvoice(9, 1, 2), 90)>>
          [] option = "broken" -> <<first, [payment_id |-> 50]>>

\* with critical, the first invoice carries an IRN_MISMATCH
LoadSnapshot(ps, option, critical) ==
    [taxpayers  |-> [g \in 1..2 |-> Taxpayer(g, 6)],
     vendors    |-> [g \in 1..2 |-> Vendor(g, 500, "MEDIUM")],
     invoices   |-> BuildInvoices(ps),
     mismatches |-> IF critical /\ ps # <<>>
                    THEN BuildMismatches(BuildInvoices(ps), << <<1, "IRN_MISMATCH">> >>)
                    ELSE <<>>,
     returns    |-> <<Return(1, 1), Return(2, 3)>>,
     payments   |-> LoadPayments(option)]

\* the files a later load_data finds: the same, or one invoice from party 1 to party 2
ReplacementSnapshot == LoadSnapshot(<< <<1, 2>> >>, "none", FALSE)

\* load_data is called again on the same engine, the files unchanged or replaced;
\* calls are followed from the engines that hold a single load of their files
Reload ==
    /\ pc = "ready"
    /\ first_bad_payment(kg) = 0
    /\ kg = load_data(NewKG, files)
    /\ files' \in {files, ReplacementSnapshot}
    /\ pc' = "new"
    /\ UNCHANGED <<kg, i, today, call, pr, result>>

InitLoad ==
    /\ \E ps \in SeqsUpTo(LoadPairs, LoadInvoices), option \in PaymentOptions,
          critical \in BOOLEAN :
          files = LoadSnapshot(ps, option, critical)
    /\ kg = NewKG
    /\ pc = "new"
    /\ i = 1
    /\ today = 400
    /\ call = NoCall
    /\ pr = NoCall
    /\ result = NoCall

NextLoad == LoadStep \/ IndexesAbort \/ Reload

SpecLoad == InitLoad /\ [][NextLoad]_vars

\* the invoices of the files with an end that no taxpayer record registers
Dangling(inv) ==
    inv.supplier_gstin \notin Registered \/ inv.buyer_gstin \notin Registered

EdgeIs(G, u, v, type) == has_edge(G, u, v) /\ G.edge[<<u, v>>].type = type

\* C12: when load_data has run on files in which a transaction names an unknown source
\* and/or destination party, the transaction's node exists, its SUPPLIER_OF and
\* RECIPIENT_OF edges exist exactly towards the parties that exist, no node stands for
\* the unknown party and no aggregate edge starts or ends at it.
C12_DanglingSkipped ==
    pc = "ready" =>
        \A n \in DOMAIN files.invoices :
            LET inv    == files.invoices[n]
                inv_id == inv_node(inv.invoice_id)
                sup_g  == gstin_node(inv.supplier_gstin)
                buy_g  == gstin_node(inv.buyer_gstin)
            IN  Dangling(inv) =>
                  /\ has_node(kg.G, inv_id)
                  /\ kg.G.data[inv_id].type = "Invoice"
                  /\ EdgeIs(kg.G, sup_g, inv_id, "SUPPLIER_OF")
                         <=> inv.supplier_gstin \in Registered
                  /\ EdgeIs(kg.G, inv_id, buy_g, "RECIPIENT_OF")
                         <=> inv.buyer_gstin \in Registered
                  /\ \A g \in {inv.supplier_gstin, inv.buyer_gstin} \ Registered :
                         /\ ~ has_node(kg.G, gstin_node(g))
                         /\ \A e \in DOMAIN kg.G.edge : gstin_node(g) \notin {e[1], e[2]}
                  /\ ~ has_edge(kg.G, sup_g, buy_g)

\* a build has completed on files with an invoice from an unknown supplier, one to an
\* unknown buyer and a CRITICAL event on a dangling invoice
C12_Witness ==
    /\ pc = "ready"
    /\ \E a, b \in DOMAIN files.invoices :
          /\ files.invoices[a].supplier_gstin = 3 /\ files.invoices[a].buyer_gstin = 1
          /\ files.invoices[b].supplier_gstin = 1 /\ files.invoices[b].buyer_gstin = 3
          /\ has_node(kg.G, inv_node(files.invoices[a].invoice_id))
          /\ has_node(kg.G, inv_node(files.invoices[b].invoice_id))
    /\ files.mismatches # <<>>
    /\ has_node(kg.G, mis_node(1))

\* the payment nodes attached to an invoice node by a PAID_BY edge
PaidBy(G, inv_id) ==
    {v \in Range(G.succ[inv_id]) : G.edge[<<inv_id, v>>].type = "PAID_BY"}

\* C13: after graph construction from any payments collection, the node of every
\* transaction has at most one outgoing PAID_BY edge, and when the payment index holds
\* a payment of the transaction, that payment is the one attached in the graph.
C13_OnePaymentPerInvoice ==
    pc = "ready" =>
        \A n \in DOMAIN files.invoices :
            LET id     == files.invoices[n].invoice_id
                inv_id == inv_node(id)
            IN  /\ Cardinality(PaidBy(kg.G, inv_id)) <= 1
                /\ id \in DOMAIN kg.pay_by_inv =>
                       PaidBy(kg.G, inv_id) = {pay_node(kg.pay_by_inv[id].payment_id)}

\* the events reconcile_period has synthesized in a row of its result
Synthesized(row) ==
    {n \in DOMAIN row.mismatches : "interest_liability" \in DOMAIN row.mismatches[n]}

\* no event index, list or graph node holds a synthesized event of the last result
SyntheticNotPersisted ==
    Reconciled =>
        \A r \in DOMAIN result.ret.classified_mismatches :
            LET row == result.ret.classified_mismatches[r]
            IN  Synthesized(row) # {} =>
                  /\ \A m \in Range(Get(kg.mis_by_inv, row.invoice_id, <<>>)) :
                         m.mismatch_type # "PAYMENT_OVERDUE_180_DAYS"
                  /\ kg.mismatches = files.mismatches
                  /\ Cardinality(DOMAIN kg.mis_index) = Len(files.mismatches)
                  /\ PaidBy(kg.G, inv_node(row.invoice_id)) = {}
                  /\ Len(SelectSeq(kg.G.succ[inv_node(row.invoice_id)],
                                   LAMBDA v : kg.G.edge[<<inv_node(row.invoice_id), v>>].type
                                                  = "HAS_MISMATCH"))
                         = Len(EventsOf(files.invoices[row.invoice_id]))

\* C14: every query (reconcile_period, check_payment_compliance, validate_itc_chain,
\* find_risk_clusters, compute_graph_features, predict_next_period_risk,
\* predict_all_vendors), in any order and interleaving, leaves the graph, the entity
\* collections and every index unchanged, and the PAYMENT_OVERDUE event synthesized by
\* reconcile_period is in no index and not in the graph afterwards.
C14_QueriesReadOnly ==
    /\ [][kg' = kg /\ files' = files /\ pr' = pr]_vars
    /\ [](kg = load_data(NewKG, files))
    /\ []SyntheticNotPersisted

\* reconcile_period has returned a row with a synthesized event for an invoice that has
\* an event of its own in the index, while a validate_itc_chain call is in progress
C14_Witness ==
    /\ Reconciled
    /\ InChain
    /\ \E r \in DOMAIN result.ret.classified_mismatches :
          LET row == result.ret.classified_mismatches[r]
          IN  /\ Synthesized(row) # {}
              /\ Len(row.mismatches) = 2
              /\ Len(Get(kg.mis_by_inv, row.invoice_id, <<>>)) = 1

\* C15: when load_data aborts partway, the engine that queries read is the state before
\* the build started (here the newly constructed engine), not a partly built one.
C15_BuildAtomic ==
    pc = "failed" => kg = NewKG

\* the invoices of the files from party s to party b
Between(s, b) ==
    SelectSeq(files.invoices, LAMBDA v : v.supplier_gstin = s /\ v.buyer_gstin = b)

\* C16: after graph construction, for every ordered pair (s, b) of known parties the
\* aggregate edge s -> b exists if and only if some transaction has source s and
\* destination b, and then its transaction_count is the number of these transactions
\* and its total_value the sum of their values.
C16_AggregateEdge ==
    pc = "ready" =>
        \A s, b \in DOMAIN kg.gstin_to_tp :
            LET e == <<gstin_node(s), gstin_node(b)>>
            IN  /\ e \in TransactsWith(kg.G) <=> Between(s, b) # <<>>
                /\ has_edge(kg.G, gstin_node(s), gstin_node(b)) => e \in TransactsWith(kg.G)
                /\ e \in TransactsWith(kg.G) =>
                       /\ kg.G.edge[e].transaction_count = Len(Between(s, b))
                       /\ kg.G.edge[e].total_value =
                              SeqSum(Map(LAMBDA v : v.total_value, Between(s, b)))

\* a built graph in which one pair of parties has two transactions and another pair,
\* both known, has none
C16_Witness ==
    /\ pc = "ready"
    /\ \E s, b \in DOMAIN kg.gstin_to_tp :
          /\ Len(Between(s, b)) = 2
          /\ kg.G.edge[<<gstin_node(s), gstin_node(b)>>].transaction_count = 2
          /\ kg.G.edge[<<gstin_node(s), gstin_node(b)>>].total_value = 236000
    /\ \E s, b \in DOMAIN kg.gstin_to_tp :
          Between(s, b) = <<>> /\ ~ has_edge(kg.G, gstin_node(s), gstin_node(b))

\* the (party, period) keys under which the engine or the snapshot holds a transaction
IndexKeys ==
    DOMAIN kg.inv_by_buyer \cup DOMAIN kg.inv_by_sup
        \cup {<<files.invoices[j].buyer_gstin, files.invoices[j].return_period>> :
                  j \in DOMAIN files.invoices}
        \cup {<<files.invoices[j].supplier_gstin, files.invoices[j].return_period>> :
                  j \in DOMAIN files.invoices}

\* list holds exactly the transactions of the current snapshot in matching, each once
ExactlyOnce(list, matching) ==
    /\ \A j \in DOMAIN list : \E n \in DOMAIN matching : list[j] = matching[n]
    /\ \A n \in DOMAIN matching :
           Cardinality({j \in DOMAIN list : list[j] = matching[n]}) = 1

\* C17: after any number of load_data calls on the same engine, each (party, period)
\* index list contains every matching transaction of the current snapshot exactly once,
\* and every aggregate edge has the transaction_count and total_value of a single build
\* of the current snapshot.
C17_RebuildReflectsSnapshot ==
    pc = "ready" =>
        /\ \A key \in IndexKeys :
               /\ ExactlyOnce(Get(kg.inv_by_buyer, key, <<>>),
                              SelectSeq(files.invoices,
                                        LAMBDA v : /\ v.buyer_gstin = key[1]
                                                   /\ v.return_period = key[2]))
               /\ ExactlyOnce(Get(kg.inv_by_sup, key, <<>>),
                              SelectSeq(files.invoices,
                                        LAMBDA v : /\ v.supplier_gstin = key[1]
                                                   /\ v.return_period = key[2]))
        /\ \A e \in TransactsWith(kg.G) :
               /\ e \in TransactsWith(load_data(NewKG, files).G)
               /\ kg.G.edge[e].transaction_count =
                      load_data(NewKG, files).G.edge[e].transaction_count
               /\ kg.G.edge[e].total_value =
                      load_data(NewKG, files).G.edge[e].total_value

\* the events of a classified row have an event of this type
HasEvent(row, mtype) ==
    \E n \in DOMAIN row.mismatches : row.mismatches[n].mismatch_type = mtype

\* C18: reconcile_period classifies each transaction by priority: no events after the
\* payment-aging merge gives MATCHED with at_risk 0; otherwise an INVOICE_MISSING_2B
\* event gives status MISSING_IN_2B, risk HIGH and at_risk the full ITC, whatever else
\* is attached; otherwise status and risk are those of an attached event of the highest
\* risk and at_risk is the sum of amount_at_risk over all the events, the synthetic one
\* included.
C18_ClassificationPriority ==
    Reconciled =>
        \A n \in DOMAIN result.ret.classified_mismatches :
            LET row == result.ret.classified_mismatches[n]
                ms  == row.mismatches
            IN  IF ms = <<>>
                THEN row.status = "MATCHED" /\ row.at_risk = 0
                ELSE IF HasEvent(row, "INVOICE_MISSING_2B")
                THEN /\ row.status = "MISSING_IN_2B"
                     /\ row.risk_level = "HIGH"
                     /\ row.at_risk = row.itc_value
                ELSE /\ \E t \in DOMAIN ms :
                            /\ \A j \in DOMAIN ms :
                                   RISK_ORDER(ms[j].risk_level) <= RISK_ORDER(ms[t].risk_level)
                            /\ row.status = ms[t].mismatch_type
                            /\ row.risk_level = ms[t].risk_level
                     /\ row.at_risk = SeqSum(Map(LAMBDA m : m.amount_at_risk, ms))

\* one reconciliation with a row that has INVOICE_MISSING_2B next to CRITICAL events,
\* the synthetic one among them, and a row without it whose at_risk adds the synthetic
\* event to an attached one
C18_Witness ==
    /\ Reconciled
    /\ \E n \in DOMAIN result.ret.classified_mismatches :
          LET row == result.ret.classified_mismatches[n]
          IN  /\ HasEvent(row, "INVOICE_MISSING_2B")
              /\ HasEvent(row, "PAYMENT_OVERDUE_180_DAYS")
              /\ row.status = "MISSING_IN_2B"
              /\ row.at_risk = 1800000
    /\ \E n \in DOMAIN result.ret.classified_mismatches :
          LET row == result.ret.classified_mismatches[n]
          IN  /\ HasEvent(row, "AMOUNT_MISMATCH")
              /\ ~ HasEvent(row, "DATE_MISMATCH")
              /\ row.status = "PAYMENT_OVERDUE_180_DAYS"
              /\ row.risk_level = "CRITICAL"
              /\ row.at_risk = 2300000

\* the transaction of the snapshot that a classified row is about
InvoiceOfRow(row) ==
    CHOOSE v \in {files.invoices[j] : j \in DOMAIN files.invoices} :
        v.invoice_id = row.invoice_id

\* the transaction has no payment record, is more than 180 days old and has no
\* PAYMENT_OVERDUE_180_DAYS event attached
OverdueUnflagged(inv) ==
    /\ ~ HasPayment(inv)
    /\ today - inv.invoice_date > 180
    /\ \A n \in DOMAIN EventsOf(inv) :
           EventsOf(inv)[n].mismatch_type # "PAYMENT_OVERDUE_180_DAYS"

\* C19: reconcile_period merges a synthetic PAYMENT_OVERDUE_180_DAYS event (CRITICAL,
\* amount_at_risk = the ITC of the transaction) into a transaction's events exactly when
\* the transaction has no payment record, is more than 180 days old and has no such
\* event attached; then exactly one is added, and none is added at exactly 180 days
\* or when a payment exists.
C19_SyntheticOverdue ==
    Reconciled =>
        \A n \in DOMAIN result.ret.classified_mismatches :
            LET row == result.ret.classified_mismatches[n]
                inv == InvoiceOfRow(row)
                ms  == row.mismatches
            IN  IF OverdueUnflagged(inv)
                THEN /\ Len(ms) = Len(EventsOf(inv)) + 1
                     /\ SubSeq(ms, 1, Len(ms) - 1) = EventsOf(inv)
                     /\ ms[Len(ms)].mismatch_type = "PAYMENT_OVERDUE_180_DAYS"
                     /\ ms[Len(ms)].risk_level = "CRITICAL"
                     /\ ms[Len(ms)].amount_at_risk = itc_of(inv)
                     /\ Synthesized(row) = {Len(ms)}
                ELSE ms = EventsOf(inv) /\ Synthesized(row) = {}

\* one reconciliation of an unpaid transaction of 181 days, which gets the event, and
\* of an unpaid transaction of exactly 180 days, which gets none
C19_Witness ==
    /\ Reconciled
    /\ \E n \in DOMAIN result.ret.classified_mismatches :
          LET row == result.ret.classified_mismatches[n]
          IN  /\ today - InvoiceOfRow(row).invoice_date = 181
              /\ row.payment_status = "UNPAID"
              /\ Cardinality(Synthesized(row)) = 1
              /\ row.mismatches[Len(row.mismatches)].amount_at_risk = 1800000
    /\ \E n \in DOMAIN result.ret.classified_mismatches :
          LET row == result.ret.classified_mismatches[n]
          IN  /\ today - InvoiceOfRow(row).invoice_date = 180
              /\ row.payment_status = "UNPAID"
              /\ Synthesized(row) = {}

\* the positions of a result list that are about a transaction
RowIndexes(list, inv) == {n \in DOMAIN list : list[n].invoice_id = inv.invoice_id}

\* the transactions bought by the party of the last compliance check
CheckedInvoices == SelectSeq(files.invoices, LAMBDA v : v.buyer_gstin = result.ret.gstin)

\* the transactions counted as safe: tax-bearing and either unpaid for at most 150 days
\* or paid within the limit
SafeInvoices ==
    SelectSeq(CheckedInvoices,
              LAMBDA v : /\ itc_of(v) > 0
                         /\ IF HasPayment(v)
                            THEN kg.pay_by_inv[v.invoice_id].days_from_invoice <= 180
                            ELSE result.ret.as_of_date - v.invoice_date <= 150)

PaymentOf(inv) ==
    CHOOSE p \in {files.payments[n] : n \in DOMAIN files.payments} :
        p.invoice_id = inv.invoice_id

\* C21: check_payment_compliance classifies a paid transaction PAID_AFTER_180_DAYS
\* exactly when its payment was recorded more than 180 days after the transaction date;
\* such a row has reversal_period_days = days_from_invoice - 180 >= 1, a non-negative
\* interest computed over these days and the full ITC as re-claimable amount; every
\* other paid transaction is safe and in no list.
C21_PaidLate ==
    Checked =>
        \A j \in DOMAIN CheckedInvoices :
            LET inv       == CheckedInvoices[j]
                overdue   == RowIndexes(result.ret.overdue_invoices, inv)
                pending   == RowIndexes(result.ret.pending_warnings, inv)
                paid_late == RowIndexes(result.ret.paid_late_invoices, inv)
            IN  (itc_of(inv) > 0 /\ HasPayment(inv)) =>
                    /\ overdue = {} /\ pending = {}
                    /\ Cardinality(paid_late) =
                           (IF PaymentOf(inv).days_from_invoice > 180 THEN 1 ELSE 0)
                    /\ \A n \in paid_late :
                           LET row == result.ret.paid_late_invoices[n]
                           IN  /\ row.status = "PAID_AFTER_180_DAYS"
                               /\ row.reversal_period_days =
                                      PaymentOf(inv).days_from_invoice - 180
                               /\ row.reversal_period_days >= 1
                               /\ row.interest_paid =
                                      interest_on(itc_of(inv), row.reversal_period_days)
                               /\ row.interest_paid >= 0
                               /\ row.itc_re_claimable = itc_of(inv)

\* one check of a party with a transaction paid after 181 days, re-claimable in full
\* with the interest of one day, and a transaction paid after 90 days, which is safe
C21_Witness ==
    /\ Checked
    /\ Len(result.ret.paid_late_invoices) = 1
    /\ result.ret.paid_late_invoices[1].reversal_period_days = 1
    /\ result.ret.paid_late_invoices[1].interest_paid = 888
    /\ result.ret.paid_late_invoices[1].itc_re_claimable = 1800000
    /\ result.ret.safe_count = 1
    /\ \E j \in DOMAIN CheckedInvoices :
          /\ HasPayment(CheckedInvoices[j])
          /\ PaymentOf(CheckedInvoices[j]).days_from_invoice = 90

\* a validate_itc_chain call has returned its report (not the error of an unknown party)
ChainReported == result.op = "validate_itc_chain" /\ "chain_hops" \in DOMAIN result.ret

\* the parties that supply a party of the set S over an aggregate edge
SuppliersOfSet(S) ==
    {s \in DOMAIN kg.gstin_to_tp :
        \E b \in S : <<gstin_node(s), gstin_node(b)>> \in TransactsWith(kg.G)}

\* the parties reachable from start by following at most n aggregate edges backwards
RECURSIVE UpstreamWithin(_, _)
UpstreamWithin(start, n) ==
    IF n < 0 THEN {}
    ELSE IF n = 0 THEN {start}
    ELSE UpstreamWithin(start, n - 1) \cup SuppliersOfSet(UpstreamWithin(start, n - 1))

\* C22: validate_itc_chain reports in chain_hops each party at most once, the start
\* party at hop 0 and every entry at a hop in 0..max_hops, and the reported parties are
\* exactly the registered parties reachable from the start by following at most max_hops
\* aggregate supply edges backwards.
C22_ChainReach ==
    ChainReported =>
        LET hops == result.ret.chain_hops
        IN  /\ \A a, b \in DOMAIN hops : hops[a].gstin = hops[b].gstin => a = b
            /\ \A a \in DOMAIN hops :
                   /\ hops[a].hop \in 0..result.ret.max_hops
                   /\ hops[a].gstin = result.ret.gstin <=> hops[a].hop = 0
                   /\ hops[a].gstin \in DOMAIN kg.gstin_to_tp
            /\ {hops[a].gstin : a \in DOMAIN hops} =
                   UpstreamWithin(result.ret.gstin, result.ret.max_hops)

\* a report with max_hops 1 that leaves out a party two edges upstream of the start
C22_Witness ==
    /\ ChainReported
    /\ result.ret.max_hops = 1
    /\ Len(result.ret.chain_hops) = 2
    /\ result.ret.chain_hops[1].hop = 0
    /\ result.ret.chain_hops[2].hop = 1
    /\ UpstreamWithin(result.ret.gstin, 2) # UpstreamWithin(result.ret.gstin, 1)

\* the composite risk score of a party in the vendor profiles, 50.0 without a profile
ScoreOf(gstin) ==
    IF \E n \in DOMAIN files.vendors : files.vendors[n].gstin = gstin
    THEN (CHOOSE v \in Range(files.vendors) : v.gstin = gstin).composite_risk_score
    ELSE 500

\* the sum of the scores of the reported hops, in tenths
HopScoreSum ==
    SeqSum([a \in DOMAIN result.ret.chain_hops |-> ScoreOf(result.ret.chain_hops[a].gstin)])

AnyHopBlocked ==
    \E a \in DOMAIN result.ret.chain_hops : result.ret.chain_hops[a].status = "BLOCKED"

\* a reported hop has a CRITICAL event attached to one of the transactions it supplies
AnyHopCriticalEvent ==
    \E a \in DOMAIN result.ret.chain_hops, n \in DOMAIN files.mismatches :
        /\ files.mismatches[n].risk_level = "CRITICAL"
        /\ files.mismatches[n].supplier_gstin = result.ret.chain_hops[a].gstin

\* the chain risk level for an average given in tenths
LevelFor(avg_is_at_least(_)) ==
    IF avg_is_at_least(700) \/ AnyHopBlocked THEN "CRITICAL"
    ELSE IF avg_is_at_least(500) \/ result.ret.total_itc_at_risk > 0 THEN "HIGH"
    ELSE IF avg_is_at_least(300) THEN "MEDIUM"
    ELSE "LOW"

GroupAverage(S) == RoundDiv(SumOver(ScoreOf, S), Cardinality(S))

\* the connected components that a returned cluster stands for
ReturnedGroups ==
    {TradeGroup({g}) : g \in UNION {result.ret[n].member_gstins : n \in DOMAIN result.ret}}

\* C24: find_risk_clusters returns at most 10 clusters in non-increasing order of
\* avg_risk_score, and they are the top ones: no connected component that is left out
\* has an average risk score strictly greater than that of a returned cluster.
C24_TopClusters ==
    Clustered =>
        /\ Len(result.ret) <= 10
        /\ \A a, b \in DOMAIN result.ret :
               a < b => result.ret[a].avg_risk_score >= result.ret[b].avg_risk_score
        /\ \A n \in DOMAIN result.ret :
               \A g \in result.ret[n].member_gstins :
                   result.ret[n].avg_risk_score = GroupAverage(TradeGroup({g}))
        /\ \A S \in TradeGroups \ ReturnedGroups :
               \A n \in DOMAIN result.ret : GroupAverage(S) <= result.ret[n].avg_risk_score
        /\ Cardinality(ReturnedGroups) = Min2(10, Cardinality(TradeGroups))

\* eleven components, of which the one of lowest average is left out
C24_Witness ==
    /\ Clustered
    /\ Len(result.ret) = 10
    /\ Cardinality(TradeGroups) = 11
    /\ \E S \in TradeGroups \ ReturnedGroups :
          GroupAverage(S) < result.ret[10].avg_risk_score
    /\ result.ret[1].avg_risk_score > result.ret[2].avg_risk_score

\* the aggregate edges of the graph whose two ends are both parties of S
EdgesInside(S) ==
    {e \in TransactsWith(kg.G) : \E s, b \in S : e = <<gstin_node(s), gstin_node(b)>>}

EdgeValue(e) == kg.G.edge[e].total_value

\* C25: for every cluster returned by find_risk_clusters, total_transaction_value is the
\* sum of the total_value of all aggregate edges whose two ends are both members of the
\* cluster, both directions included when two parties trade in both directions.
C25_InternalValue ==
    Clustered =>
        \A n \in DOMAIN result.ret :
            \A g \in result.ret[n].member_gstins :
                result.ret[n].total_transaction_value =
                    SumOver(EdgeValue, EdgesInside(TradeGroup({g})))

PredictedAll == result.op = "predict_all_vendors"

\* the ordinal rank LOW < MEDIUM < HIGH < CRITICAL
CategoryRank(cat) ==
    CASE cat = "LOW" -> 1 [] cat = "MEDIUM" -> 2 [] cat = "HIGH" -> 3 [] cat = "CRITICAL" -> 4

\* the predictions whose predicted category stands in relation rel to the current one
Movers(rel(_, _)) ==
    {n \in DOMAIN result.ret.predictions :
        rel(CategoryRank(result.ret.predictions[n].predicted_risk_category),
            CategoryRank(result.ret.predictions[n].current_risk_category))}

\* C26: predict_all_vendors returns exactly one prediction for every known party in the
\* graph, in non-increasing order of predicted_risk_score, and counts each prediction in
\* exactly one of moving_up, moving_down and stable by the rank of its predicted category
\* against that of its current category, so that the three counts add up to
\* total_vendors.
C26_PredictAll ==
    PredictedAll =>
        LET ps == result.ret.predictions
        IN  /\ \A g \in DOMAIN kg.gstin_to_tp :
                   Cardinality({n \in DOMAIN ps : ps[n].gstin = g}) = 1
            /\ \A n \in DOMAIN ps : ps[n].gstin \in DOMAIN kg.gstin_to_tp
            /\ \A a, b \in DOMAIN ps :
                   a < b => ps[a].predicted_risk_score >= ps[b].predicted_risk_score
            /\ result.ret.total_vendors = Len(ps)
            /\ result.ret.moving_up = Cardinality(Movers(LAMBDA x, y : x > y))
            /\ result.ret.moving_down = Cardinality(Movers(LAMBDA x, y : x < y))
            /\ result.ret.stable = Cardinality(Movers(LAMBDA x, y : x = y))
            /\ result.ret.moving_up + result.ret.moving_down + result.ret.stable
                   = result.ret.total_vendors

-----------------------------------------------------------------------------
(* load_data, step by step, of snapshots whose invoices carry e-invoice      *)
(* references (SpecReference)                                                *)

ReferenceInvoices == 2

\* generate_invoices: an invoice has no IRN, or an IRN that is ACTIVE or CANCELLED
IrnCases == {"none", "ACTIVE", "CANCELLED"}

WithReference(inv, c) ==
    [inv EXCEPT !.irn = IF c = "none" THEN "" ELSE "IRN",
                !.irn_status = IF c = "none" THEN "" ELSE c]

\* invoices from party 1 to party 2, the n-th with the reference cs[n]
ReferenceSnapshot(cs, option, critical) ==
    LET base == LoadSnapshot([n \in DOMAIN cs |-> <<1, 2>>], option, critical)
    IN  [base EXCEPT !.invoices = [n \in DOMAIN cs |-> WithReference(base.invoices[n], cs[n])]]

InitReference ==
    /\ \E cs \in SeqsUpTo(IrnCases, ReferenceInvoices), option \in {"none", "one"},
          critical \in BOOLEAN :
          files = ReferenceSnapshot(cs, option, critical)
    /\ kg = NewKG
    /\ pc = "new"
    /\ i = 1
    /\ today = 400
    /\ call = NoCall
    /\ pr = NoCall
    /\ result = NoCall

NextReference == LoadStep

SpecReference == InitReference /\ [][NextReference]_vars

\* the graph has an IRN node for the invoice, linked to it by a HAS_IRN edge
HasReferenceNode(inv) ==
    /\ has_node(kg.G, irn_node(inv.invoice_id))
    /\ EdgeIs(kg.G, inv_node(inv.invoice_id), irn_node(inv.invoice_id), "HAS_IRN")

\* C27 as claimed: graph construction creates an IRN node linked by a HAS_IRN edge for a
\* transaction if and only if the transaction carries an IRN whose status is valid
\* (ACTIVE); a transaction without IRN, or with a cancelled one, gets no IRN node.
C27_ValidReferenceNode ==
    pc = "ready" =>
        \A n \in DOMAIN files.invoices :
            HasReferenceNode(files.invoices[n]) <=>
                (files.invoices[n].irn # "" /\ files.invoices[n].irn_status = "ACTIVE")

\* C27 amended: the IRN node is created if and only if the transaction carries an IRN,
\* whatever its status; the node records the status, ACTIVE or CANCELLED.
C27_ReferenceNode ==
    pc = "ready" =>
        \A n \in DOMAIN files.invoices :
            /\ HasReferenceNode(files.invoices[n]) <=> files.invoices[n].irn # ""
            /\ HasReferenceNode(files.invoices[n]) =>
                   kg.G.data[irn_node(files.invoices[n].invoice_id)].status =
                       files.invoices[n].irn_status

\* a built graph with the IRN node of a cancelled IRN and an invoice without IRN
C27_Witness ==
    /\ pc = "ready"
    /\ \E n \in DOMAIN files.invoices :
          /\ files.invoices[n].irn_status = "CANCELLED"
          /\ HasReferenceNode(files.invoices[n])
    /\ \E n \in DOMAIN files.invoices :
          /\ files.invoices[n].irn = ""
          /\ ~ has_node(kg.G, irn_node(files.invoices[n].invoice_id))

\* the length of the shortest upstream path from start to a party within reach
UpstreamDistance(start, g) ==
    CHOOSE n \in 0..Cardinality(DOMAIN kg.gstin_to_tp) :
        /\ g \in UpstreamWithin(start, n)
        /\ g \notin UpstreamWithin(start, n - 1)

\* C28: the hop that validate_itc_chain reports for a party is the length of the
\* shortest upstream path (aggregate edges followed backwards) from the start party to
\* it, and chain_hops is listed in non-decreasing order of hop.
C28_ShortestHop ==
    ChainReported =>
        LET hops == result.ret.chain_hops
        IN  /\ \A a \in DOMAIN hops :
                   /\ hops[a].gstin \in UpstreamWithin(result.ret.gstin, result.ret.max_hops)
                   /\ hops[a].hop = UpstreamDistance(result.ret.gstin, hops[a].gstin)
            /\ \A a, b \in DOMAIN hops : a < b => hops[a].hop <= hops[b].hop

\* a report in which a party is reported at hop 1 although it also supplies the other
\* party of hop 1, a path of two edges
C28_Witness ==
    /\ ChainReported
    /\ Len(result.ret.chain_hops) = 3
    /\ result.ret.chain_hops[2].hop = 1
    /\ result.ret.chain_hops[3].hop = 1
    /\ <<gstin_node(result.ret.chain_hops[3].gstin),
         gstin_node(result.ret.chain_hops[2].gstin)>> \in TransactsWith(kg.G)

\* the invoices that check_payment_compliance, asked about the reconciled party for the
\* day of the reconciliation, lists as overdue
OverdueOnSameDay ==
    LET report == check_payment_compliance(kg, result.ret.gstin, today)
    IN  {report.overdue_invoices[n].invoice_id : n \in DOMAIN report.overdue_invoices}

\* C29: reconcile_period and check_payment_compliance agree on the 180-day rule for the
\* same as-of date: for every transaction bought by the party with non-zero ITC,
\* reconcile_period sets itc_reversal_due (and then never classifies it MATCHED) if and
\* only if check_payment_compliance lists the transaction in overdue_invoices.
C29_SameOverdueRule ==
    Reconciled =>
        \A n \in DOMAIN result.ret.classified_mismatches :
            LET row == result.ret.classified_mismatches[n]
            IN  row.itc_value # 0 =>
                    /\ row.itc_reversal_due <=> row.invoice_id \in OverdueOnSameDay
                    /\ row.itc_reversal_due => row.status # "MATCHED"

\* a reconciliation with a transaction unpaid for 181 days, due for reversal and listed
\* as overdue, and one unpaid for exactly 180 days, neither due nor listed
C29_Witness ==
    /\ Reconciled
    /\ \E n \in DOMAIN result.ret.classified_mismatches :
          LET row == result.ret.classified_mismatches[n]
          IN  /\ row.payment_days = 181
              /\ row.itc_reversal_due
              /\ row.invoice_id \in OverdueOnSameDay
    /\ \E n \in DOMAIN result.ret.classified_mismatches :
          LET row == result.ret.classified_mismatches[n]
          IN  /\ row.payment_status = "UNPAID"
              /\ row.payment_days = 180
              /\ ~ row.itc_reversal_due
              /\ row.invoice_id \notin OverdueOnSameDay

\* the transactions of the checked party that carry tax
TaxedInvoices == SelectSeq(CheckedInvoices, LAMBDA v : itc_of(v) # 0)

\* the invoice ids of a list of the report
IdsOf(list) == {list[n].invoice_id : n \in DOMAIN list}

\* C30: check_payment_compliance places every transaction bought by the party with
\* non-zero ITC in exactly one of the four outcomes: safe_count + overdue_count +
\* paid_late_count + pending_warning_count is the number of these transactions, while
\* total_invoices_checked also counts the skipped zero-tax ones; and total_exposure =
\* total_itc_reversal_required + total_interest_liability.
C30_OutcomesAddUp ==
    Checked =>
        LET r == result.ret
        IN  /\ r.safe_count + r.overdue_count + r.paid_late_count + r.pending_warning_count
                   = Len(TaxedInvoices)
            /\ r.total_invoices_checked = Len(CheckedInvoices)
            /\ r.overdue_count = Cardinality(IdsOf(r.overdue_invoices))
            /\ r.paid_late_count = Cardinality(IdsOf(r.paid_late_invoices))
            /\ r.pending_warning_count = Cardinality(IdsOf(r.pending_warnings))
            /\ IdsOf(r.overdue_invoices) \cap IdsOf(r.paid_late_invoices) = {}
            /\ IdsOf(r.overdue_invoices) \cap IdsOf(r.pending_warnings) = {}
            /\ IdsOf(r.paid_late_invoices) \cap IdsOf(r.pending_warnings) = {}
            /\ (IdsOf(r.overdue_invoices) \cup IdsOf(r.paid_late_invoices)
                    \cup IdsOf(r.pending_warnings))
                   \subseteq {TaxedInvoices[n].invoice_id : n \in DOMAIN TaxedInvoices}
            /\ r.safe_count >= 0
            /\ r.total_exposure = r.total_itc_reversal_required + r.total_interest_liability

\* a check of a party with an overdue transaction and a zero-tax transaction: two
\* invoices checked, one outcome, and an exposure of ITC plus interest
C30_Witness ==
    /\ Checked
    /\ result.ret.total_invoices_checked = 2
    /\ Len(TaxedInvoices) = 1
    /\ result.ret.overdue_count = 1
    /\ result.ret.safe_count = 0
    /\ result.ret.total_interest_liability > 0
    /\ result.ret.total_exposure > result.ret.total_itc_reversal_required

====
